---------------------------- MODULE Spec2Model ----------------------------
(***************************************************************************)
(* A model of the HgiGL command-op layer (pxr/imaging/hgiGL/ops.cpp).      *)
(*                                                                         *)
(* Every op factory of HgiGLOps returns a closure.  The closure body is    *)
(* modelled as an operator over a "machine" record m that is threaded      *)
(* through the native calls in the order the code issues them:             *)
(*   m.gl        the global GPU binding state of the current GL context    *)
(*   m.calls     the native calls issued so far by this invocation         *)
(*   m.diag      the diagnostics raised (TF_VERIFY, TF_CODING_ERROR, ...)  *)
(*   m.resolved  the handles on which Get() was called                     *)
(*   m.nullDeref a member of a null object was accessed (undefined)        *)
(*   m.oobRead   a vector was indexed past its end (undefined)             *)
(*   m.crashed   the undefined access ended the process                    *)
(*   m.ret       the value returned by the last native query               *)
(***************************************************************************)
EXTENDS Integers, Sequences, FiniteSets, TLC

(***************************************************************************)
(* Bounds of the model.                                                    *)
(***************************************************************************)
\* Number of op invocations in one behaviour of Spec.
MaxInvocations == 1
\* Number of ops recorded (over all command lists) in one behaviour of FlushSpec.
MaxRecorded == 3
\* Highest vertex-buffer binding slot of the modelled GL context.
MaxSlot == 3

\* Calls of the render index into one color-correction task (Sync, Prepare,
\* Execute) and viewport changes of the application between them.
MaxTaskCalls == 3

(***************************************************************************)
(* 32-bit unsigned integers.  A uint32_t is kept as two 16-bit limbs       *)
(* <<hi, lo>> so that the wrap-around of the C++ arithmetic is exact.      *)
(***************************************************************************)
LimbBase == 65536

U32(hi, lo) == <<hi, lo>>

\* a + b in uint32_t arithmetic (modulo 2^32).
AddU32(a, b) ==
    LET lo == a[2] + b[2]
        carry == lo \div LimbBase
    IN  <<(a[1] + b[1] + carry) % LimbBase, lo % LimbBase>>

\* a <= b for two uint32_t values.
LeqU32(a, b) == a[1] < b[1] \/ (a[1] = b[1] /\ a[2] <= b[2])

\* The mathematical sum a + b exceeds limit (no wrap-around).
SumExceeds(a, b, limit) ==
    LET lo == a[2] + b[2]
        hi == a[1] + b[1] + (lo \div LimbBase)
    IN  hi >= LimbBase \/ ~LeqU32(<<hi, lo % LimbBase>>, limit)

(***************************************************************************)
(* Resource handles.  A handle resolves (Get) to the backend object or to  *)
(* null.  Objects are named by their handle; NullPtr is the null pointer.  *)
(***************************************************************************)
NullPtr == "nullptr"

NullHandles == {"texNull", "bufNull", "pipeNull", "resNull"}

TextureHandles == {"texNull", "texZeroId", "texColor", "texDepth", "texSampled"}

BufferHandles == {"bufNull", "vtxA", "vtxB", "idx32", "idx16"}

PipelineHandles == {"pipeNull", "pipe1"}

ResourceBindingsHandles == {"resNull", "res1"}

\* HgiHandle::Get(): the raw pointer held by the handle.
Get(handle) == IF handle \in NullHandles THEN NullPtr ELSE handle

\* HgiGLTexture::GetTextureId()
GetTextureId(tex) ==
    CASE tex = "texColor" -> 11
      [] tex = "texDepth" -> 12
      [] tex = "texSampled" -> 13
      [] OTHER -> 0

\* HgiTextureDesc of a texture object.
TextureDesc(tex) ==
    CASE tex = "texDepth" ->
            [usage |-> {"DepthTarget"}, layerCount |-> U32(0, 1),
             dimensions |-> <<4, 4, 1>>]
      [] tex = "texSampled" ->
            [usage |-> {"ShaderRead"}, layerCount |-> U32(0, 1),
             dimensions |-> <<4, 4, 1>>]
      [] OTHER ->
            [usage |-> {"ColorTarget"}, layerCount |-> U32(0, 2),
             dimensions |-> <<4, 4, 1>>]

\* HgiGLBuffer::GetBufferId()
GetBufferId(buf) ==
    CASE buf = "vtxA" -> 21
      [] buf = "vtxB" -> 22
      [] buf = "idx32" -> 23
      [] buf = "idx16" -> 24
      [] OTHER -> 0

\* HgiBufferDesc of a buffer object.
BufferDesc(buf) ==
    CASE buf = "vtxA" -> [usage |-> {"Vertex"}, vertexStride |-> 12]
      [] buf = "vtxB" -> [usage |-> {"Vertex"}, vertexStride |-> 16]
      [] buf = "idx32" -> [usage |-> {"Index32"}, vertexStride |-> 0]
      [] OTHER -> [usage |-> {"Index16"}, vertexStride |-> 0]

\* What a read through a null object pointer may yield when it does not
\* end the process: any descriptor and any buffer id.
GarbageBuffers == {"vtxA", "idx16"}

(***************************************************************************)
(* The global GPU binding state of one GL context.                         *)
(***************************************************************************)
Contexts == {1, 2}

MainContext == 1

\* A framebuffer object created by the application before any op runs.
AppFramebuffer == 1

Slots == 0 .. MaxSlot

Unbound == <<0, 0, 0>>

DefaultRect == <<0, 0, 8, 8>>

TextureUnits == {"GL_TEXTURE0", "GL_TEXTURE1"}

\* The stencil write mask of a fresh context: all bits of an 8-bit
\* stencil buffer.
AllStencilBits == 255

\* The texture and buffer objects the application created: those behind
\* the handles.
AppTextures == {GetTextureId(t) : t \in TextureHandles} \ {0}

AppBuffers == {GetBufferId(b) : b \in BufferHandles} \ {0}

\* The state of a GL context whose read/draw framebuffer bindings are r, d.
\* fbs, textures, buffers and programs are the live objects; images holds
\* <<texture, width, height>> for each 2D texture with storage allocated by
\* glTexImage2D; fbCache holds the pairs <<description, framebuffer>> of
\* the device's framebuffer cache.
ContextState(r, d, khr) ==
    [readFB |-> r, drawFB |-> d,
     viewport |-> DefaultRect, scissor |-> DefaultRect,
     blend |-> FALSE,
     elemBuf |-> 0,
     vtxSlots |-> [s \in Slots |-> Unbound],
     fbs |-> {AppFramebuffer},
     textures |-> AppTextures, buffers |-> AppBuffers, programs |-> {},
     images |-> {},
     fbCache |-> {},
     khrDebug |-> khr,
     depthMask |-> TRUE, depthFunc |-> "GL_LESS",
     stencilMask |-> AllStencilBits,
     alphaToCoverage |-> FALSE, texture3D |-> FALSE,
     program |-> 0, arrayBuf |-> 0, attribs |-> {},
     activeTexture |-> "GL_TEXTURE0",
     tex2D |-> [u \in TextureUnits |-> 0],
     tex3D |-> [u \in TextureUnits |-> 0]]

\* The binding state proper: everything but the set of live framebuffer
\* objects and the extension flag.
Bindings(g) ==
    [readFB |-> g.readFB, drawFB |-> g.drawFB,
     viewport |-> g.viewport, scissor |-> g.scissor,
     blend |-> g.blend, elemBuf |-> g.elemBuf, vtxSlots |-> g.vtxSlots]

\* The machine at the start of a closure invocation on GL state g.
Machine(g) ==
    [gl |-> g, calls |-> <<>>, diag |-> <<>>, resolved |-> {},
     nullDeref |-> FALSE, oobRead |-> FALSE, crashed |-> FALSE, ret |-> 0]

(***************************************************************************)
(* Native calls.  Each logs itself and changes the GL state the way the    *)
(* GL specification says.                                                  *)
(***************************************************************************)
Call(m, c) == [m EXCEPT !.calls = Append(@, c)]

Diag(m, d) == [m EXCEPT !.diag = Append(@, d)]

\* TF_VERIFY(cond): a failed verification is logged; execution continues.
TF_VERIFY(m, cond) == IF cond THEN m ELSE Diag(m, "TF_VERIFY")

TF_CODING_ERROR(m) == Diag(m, "TF_CODING_ERROR")

TF_WARN(m) == Diag(m, "TF_WARN")

\* handle.Get() as seen by the machine: the resolution is recorded.
Resolve(m, handle) == [m EXCEPT !.resolved = @ \cup {handle}, !.ret = Get(handle)]

Max(S) == CHOOSE x \in S : \A y \in S : y <= x

\* glCreateFramebuffers(1, &name): a name not in use.
glCreateFramebuffers(m) ==
    LET name == Max(m.gl.fbs \cup {0}) + 1
    IN  [Call(m, <<"glCreateFramebuffers", name>>)
            EXCEPT !.gl.fbs = @ \cup {name}, !.ret = name]

\* glDeleteFramebuffers(1, &name): a deleted framebuffer that is bound
\* reverts the binding to the default framebuffer 0.
glDeleteFramebuffers(m, name) ==
    [Call(m, <<"glDeleteFramebuffers", name>>)
        EXCEPT !.gl.fbs = @ \ {name},
               !.gl.readFB = IF @ = name THEN 0 ELSE @,
               !.gl.drawFB = IF @ = name THEN 0 ELSE @]

\* glNamedFramebufferDrawBuffers(fb, n, bufs): bufs is the array of n
\* draw buffers.
glNamedFramebufferDrawBuffers(m, fb, bufs) ==
    Call(m, <<"glNamedFramebufferDrawBuffers", fb, bufs>>)

glNamedFramebufferTexture(m, fb, attachment, tex) ==
    Call(m, <<"glNamedFramebufferTexture", fb, attachment, tex>>)

glIsTexture(m, id) == [Call(m, <<"glIsTexture", id>>) EXCEPT !.ret = (id # 0)]

glCheckNamedFramebufferStatus(m, fb, target, status) ==
    [Call(m, <<"glCheckNamedFramebufferStatus", fb, target>>) EXCEPT !.ret = status]

glGetIntegerv(m, pname) ==
    [Call(m, <<"glGetIntegerv", pname>>)
        EXCEPT !.ret = CASE pname = "GL_READ_FRAMEBUFFER_BINDING" -> m.gl.readFB
                         [] pname = "GL_DRAW_FRAMEBUFFER_BINDING" -> m.gl.drawFB
                         [] pname = "GL_DEPTH_FUNC" -> m.gl.depthFunc
                         [] pname = "GL_VIEWPORT" -> m.gl.viewport
                         [] pname = "GL_TEXTURE_BINDING_2D" ->
                                m.gl.tex2D[m.gl.activeTexture]
                         [] pname = "GL_TEXTURE_BINDING_3D" ->
                                m.gl.tex3D[m.gl.activeTexture]]

\* glGetBooleanv(pname, &flag): a state value that is not a boolean is
\* converted: GL_FALSE if and only if it is zero.
glGetBooleanv(m, pname) ==
    [Call(m, <<"glGetBooleanv", pname>>)
        EXCEPT !.ret = CASE pname = "GL_DEPTH_WRITEMASK" -> m.gl.depthMask
                         [] pname = "GL_STENCIL_WRITEMASK" -> m.gl.stencilMask # 0
                         [] pname = "GL_BLEND" -> m.gl.blend
                         [] pname = "GL_SAMPLE_ALPHA_TO_COVERAGE" ->
                                m.gl.alphaToCoverage]

glBindFramebuffer(m, target, fb) ==
    [Call(m, <<"glBindFramebuffer", target, fb>>)
        EXCEPT !.gl.readFB = IF target = "GL_DRAW_FRAMEBUFFER" THEN @ ELSE fb,
               !.gl.drawFB = IF target = "GL_READ_FRAMEBUFFER" THEN @ ELSE fb]

\* glBlitFramebuffer(srcX0, srcY0, srcX1, srcY1, dstX0, dstY0, dstX1, dstY1,
\* mask, filter): src and dst are the corner tuples <<X0, Y0, X1, Y1>>.
glBlitFramebuffer(m, src, dst, mask, filter) ==
    Call(m, <<"glBlitFramebuffer", src, dst, mask, filter>>)

\* The pixels of the rectangle bounded by the corners (X0, Y0) and (X1, Y1)
\* of a blit: the lower bounds are inclusive, the upper bounds exclusive.
BlitPixels(corners) ==
    LET MinOf(a, b) == IF a <= b THEN a ELSE b
        MaxOf(a, b) == IF a <= b THEN b ELSE a
    IN  { <<px, py>> \in (0 .. 8) \X (0 .. 8) :
            /\ MinOf(corners[1], corners[3]) <= px
            /\ px < MaxOf(corners[1], corners[3])
            /\ MinOf(corners[2], corners[4]) <= py
            /\ py < MaxOf(corners[2], corners[4]) }

glMemoryBarrier(m, bits) == Call(m, <<"glMemoryBarrier", bits>>)

glGetTextureSubImage(m, id, offset, extent, format, bufSize) ==
    Call(m, <<"glGetTextureSubImage", id, offset, extent, format, bufSize>>)

glNamedBufferSubData(m, id, offset, size, data) ==
    Call(m, <<"glNamedBufferSubData", id, offset, size, data>>)

glViewport(m, rect) ==
    [Call(m, <<"glViewport", rect>>) EXCEPT !.gl.viewport = rect]

glScissor(m, rect) ==
    [Call(m, <<"glScissor", rect>>) EXCEPT !.gl.scissor = rect]

\* glBindVertexBuffer: a binding index past the context's limit is
\* GL_INVALID_VALUE and binds nothing.
glBindVertexBuffer(m, slot, id, offset, stride) ==
    [Call(m, <<"glBindVertexBuffer", slot, id, offset, stride>>)
        EXCEPT !.gl.vtxSlots = IF slot \in Slots
                               THEN [@ EXCEPT ![slot] = <<id, offset, stride>>]
                               ELSE @]

glBindBuffer(m, target, id) ==
    IF target = "GL_ARRAY_BUFFER"
    THEN [Call(m, <<"glBindBuffer", target, id>>) EXCEPT !.gl.arrayBuf = id]
    ELSE [Call(m, <<"glBindBuffer", target, id>>) EXCEPT !.gl.elemBuf = id]

glDrawElementsInstancedBaseVertex(m, count, indices, instancecount, basevertex) ==
    Call(m, <<"glDrawElementsInstancedBaseVertex", "GL_TRIANGLES", count,
              "GL_UNSIGNED_INT", indices, instancecount, basevertex>>)

glPushDebugGroup(m, label) == Call(m, <<"glPushDebugGroup", label>>)

glPopDebugGroup(m) == Call(m, <<"glPopDebugGroup">>)

glClearBufferfv(m, buffer, drawbuffer, value) ==
    Call(m, <<"glClearBufferfv", buffer, drawbuffer, value>>)

glBlendFuncSeparatei(m, buf, srcColor, dstColor, srcAlpha, dstAlpha) ==
    Call(m, <<"glBlendFuncSeparatei", buf, srcColor, dstColor, srcAlpha, dstAlpha>>)

glBlendEquationSeparatei(m, buf, colorOp, alphaOp) ==
    Call(m, <<"glBlendEquationSeparatei", buf, colorOp, alphaOp>>)

\* The GL state g with capability cap switched on or off.
SetCapability(g, cap, on) ==
    CASE cap = "GL_BLEND" -> [g EXCEPT !.blend = on]
      [] cap = "GL_SAMPLE_ALPHA_TO_COVERAGE" -> [g EXCEPT !.alphaToCoverage = on]
      [] cap = "GL_TEXTURE_3D" -> [g EXCEPT !.texture3D = on]

glEnable(m, cap) ==
    [Call(m, <<"glEnable", cap>>) EXCEPT !.gl = SetCapability(@, cap, TRUE)]

glDisable(m, cap) ==
    [Call(m, <<"glDisable", cap>>) EXCEPT !.gl = SetCapability(@, cap, FALSE)]

glDepthMask(m, flag) ==
    [Call(m, <<"glDepthMask", flag>>) EXCEPT !.gl.depthMask = flag]

\* glStencilMask(GLuint mask)
glStencilMask(m, mask) ==
    [Call(m, <<"glStencilMask", mask>>) EXCEPT !.gl.stencilMask = mask]

glDepthFunc(m, func) ==
    [Call(m, <<"glDepthFunc", func>>) EXCEPT !.gl.depthFunc = func]

glUseProgram(m, program) ==
    [Call(m, <<"glUseProgram", program>>) EXCEPT !.gl.program = program]

glActiveTexture(m, unit) ==
    [Call(m, <<"glActiveTexture", unit>>) EXCEPT !.gl.activeTexture = unit]

\* glBindTexture binds on the active texture unit.
glBindTexture(m, target, tex) ==
    IF target = "GL_TEXTURE_3D"
    THEN [Call(m, <<"glBindTexture", target, tex>>)
            EXCEPT !.gl.tex3D[m.gl.activeTexture] = tex]
    ELSE [Call(m, <<"glBindTexture", target, tex>>)
            EXCEPT !.gl.tex2D[m.gl.activeTexture] = tex]

glUniform1i(m, location, v) == Call(m, <<"glUniform1i", location, v>>)

glVertexAttribPointer(m, index, size, stride, offset) ==
    Call(m, <<"glVertexAttribPointer", index, size, stride, offset>>)

glEnableVertexAttribArray(m, index) ==
    [Call(m, <<"glEnableVertexAttribArray", index>>)
        EXCEPT !.gl.attribs = @ \cup {index}]

glDisableVertexAttribArray(m, index) ==
    [Call(m, <<"glDisableVertexAttribArray", index>>)
        EXCEPT !.gl.attribs = @ \ {index}]

glDrawArrays(m, mode, first, count) ==
    Call(m, <<"glDrawArrays", mode, first, count>>)

\* glGenTextures(1, &name): a name not in use.
glGenTextures(m) ==
    LET name == Max(m.gl.textures \cup {0}) + 1
    IN  [Call(m, <<"glGenTextures", name>>)
            EXCEPT !.gl.textures = @ \cup {name}, !.ret = name]

\* glDeleteTextures(1, &name): a deleted texture that is bound reverts the
\* binding to 0.
glDeleteTextures(m, name) ==
    [Call(m, <<"glDeleteTextures", name>>)
        EXCEPT !.gl.textures = @ \ {name},
               !.gl.images = {i \in @ : i[1] # name},
               !.gl.tex2D = [u \in TextureUnits |-> IF @[u] = name THEN 0 ELSE @[u]],
               !.gl.tex3D = [u \in TextureUnits |-> IF @[u] = name THEN 0 ELSE @[u]]]

glTexParameteri(m, target, pname, param) ==
    Call(m, <<"glTexParameteri", target, pname, param>>)

\* glTexImage2D(target, 0, internalformat, width, height, 0, ...)
\* The storage of the texture bound to the target on the active unit is
\* allocated anew, with the size given.
glTexImage2D(m, target, internalformat, width, height) ==
    LET texture == m.gl.tex2D[m.gl.activeTexture]
    IN  [Call(m, <<"glTexImage2D", target, internalformat, width, height>>)
            EXCEPT !.gl.images = {i \in @ : i[1] # texture}
                                    \cup {<<texture, width, height>>}]

\* glTexImage3D(target, 0, internalformat, width, height, depth, 0, ...)
glTexImage3D(m, target, internalformat, size) ==
    Call(m, <<"glTexImage3D", target, internalformat, size, size, size>>)

\* glGenBuffers(1, &name): a name not in use.
glGenBuffers(m) ==
    LET name == Max(m.gl.buffers \cup {0}) + 1
    IN  [Call(m, <<"glGenBuffers", name>>)
            EXCEPT !.gl.buffers = @ \cup {name}, !.ret = name]

glBufferData(m, target, size, usage) ==
    Call(m, <<"glBufferData", target, size, usage>>)

\* glGenFramebuffers(1, &name): a name not in use.
glGenFramebuffers(m) ==
    LET name == Max(m.gl.fbs \cup {0}) + 1
    IN  [Call(m, <<"glGenFramebuffers", name>>)
            EXCEPT !.gl.fbs = @ \cup {name}, !.ret = name]

\* glFramebufferTexture2D(target, attachment, GL_TEXTURE_2D, texture, 0)
glFramebufferTexture2D(m, target, attachment, texture) ==
    Call(m, <<"glFramebufferTexture2D", target, attachment, texture,
              IF target = "GL_READ_FRAMEBUFFER" THEN m.gl.readFB ELSE m.gl.drawFB>>)

\* GLF_POST_PENDING_GL_ERRORS(): polls glGetError and posts what it finds.
GLF_POST_PENDING_GL_ERRORS(m) == Call(m, <<"glGetError">>)

\* HGIGL_POST_PENDING_GL_ERRORS(): polls glGetError and posts what it finds.
HGIGL_POST_PENDING_GL_ERRORS(m) == Call(m, <<"glGetError">>)

(***************************************************************************)
(* What the environment decides during one invocation: the results of the  *)
(* two framebuffer-completeness queries and the outcome of an undefined    *)
(* access (the process ends, or the read yields the fields of some         *)
(* object / some number).                                                  *)
(***************************************************************************)
FramebufferStatuses == {"GL_FRAMEBUFFER_COMPLETE", "GL_FRAMEBUFFER_INCOMPLETE_ATTACHMENT"}

UndefinedOutcomes == {"crash"} \cup GarbageBuffers

GarbageOffset == 7

\* The storage of a label the caller has released, and what a read of it
\* yields when it does not end the process.
Released == "released"

GarbageChars == "garbage"

\* An access through a null or out-of-range location that ends the process.
Crash(m) == [m EXCEPT !.crashed = TRUE]

(***************************************************************************)
(* The op factories.  Each returns the closure: the values its lambda      *)
(* captures.  The machine is not touched: nothing outside the lambda       *)
(* issues a native call or resolves a handle.                              *)
(***************************************************************************)
Closure(kind, captures) == [kind |-> kind, vals |-> captures]

\* A factory that resolves the captured handle while recording.
FactoryResolving(m, kind, captures) ==
    [(IF kind = "BindPipeline" THEN Resolve(m, captures) ELSE m)
        EXCEPT !.ret = Closure(kind, captures)]

\* The machine after a call of a factory: only the returned closure is new.
Factory(m, kind, captures) == [m EXCEPT !.ret = Closure(kind, captures)]

(***************************************************************************)
(* The closure bodies.                                                     *)
(***************************************************************************)
\* The characters that label, a const char*, points at when it is read:
\* what the caller's storage holds at that time.
LabelChars(label, memory) == memory[label]

\* [label] { if (GLEW_KHR_debug) glPushDebugGroup(..., -1, label); }
\* The lambda holds the pointer; glPushDebugGroup reads the characters.  A
\* read of released storage is undefined.
PushDebugGroupFn(m, label, env) ==
    IF ~m.gl.khrDebug
    THEN m
    ELSE IF LabelChars(label, env.memory) = Released
    THEN IF env.undefined = "crash"
         THEN Crash(m)
         ELSE glPushDebugGroup(m, GarbageChars)
    ELSE glPushDebugGroup(m, LabelChars(label, env.memory))

\* [] { if (GLEW_KHR_debug) glPopDebugGroup(); }
PopDebugGroupFn(m, none, env) ==
    IF m.gl.khrDebug THEN glPopDebugGroup(m) ELSE m

\* The pixel format CopyTextureGpuToCpu asks the read-back for.
ReadbackFormat(texDesc) ==
    IF "ColorTarget" \in texDesc.usage THEN "GL_RGBA"
    ELSE IF "DepthTarget" \in texDesc.usage THEN "GL_DEPTH_COMPONENT"
    ELSE "0"

\* A check of the pointer alone.
NonNullTexture(srcTexture) == srcTexture # NullPtr

\* srcTexture && srcTexture->GetTextureId()
ValidTexture(srcTexture) ==
    srcTexture # NullPtr /\ GetTextureId(srcTexture) # 0

\* A read-back that is not preceded by the barrier.
ReadTexelsUnsynchronized(m, srcTexture, copyOp, texDesc) ==
    LET m1 == glGetTextureSubImage(
                  m, GetTextureId(srcTexture),
                  copyOp.sourceTexelOffset, texDesc.dimensions,
                  ReadbackFormat(texDesc),
                  copyOp.destinationBufferByteSize)
    IN  glMemoryBarrier(m1, "GL_ALL_BARRIER_BITS")

\* glMemoryBarrier(GL_ALL_BARRIER_BITS), then glGetTextureSubImage.
ReadTexels(m, srcTexture, copyOp, texDesc) ==
    LET m1 == glMemoryBarrier(m, "GL_ALL_BARRIER_BITS")
    IN  glGetTextureSubImage(
            m1, GetTextureId(srcTexture),
            copyOp.sourceTexelOffset, texDesc.dimensions,
            ReadbackFormat(texDesc),
            copyOp.destinationBufferByteSize)

CopyTextureGpuToCpuFn(m, copyOp, env) ==
    LET m1 == Resolve(m, copyOp.gpuSourceTexture)
        srcTexture == m1.ret
    IN  IF ~ValidTexture(srcTexture)
        THEN TF_VERIFY(m1, FALSE)
        ELSE IF copyOp.destinationBufferByteSize = 0
        THEN TF_WARN(m1)
        ELSE
        LET texDesc == TextureDesc(srcTexture)
            layerCnt == AddU32(copyOp.startLayer, copyOp.numLayers)
        IN  IF ~LeqU32(layerCnt, texDesc.layerCount)
            THEN TF_VERIFY(m1, FALSE)
            ELSE
            LET m2 == IF texDesc.usage \cap {"ColorTarget", "DepthTarget"} = {}
                      THEN TF_CODING_ERROR(m1) ELSE m1
                m4 == ReadTexels(m2, srcTexture, copyOp, texDesc)
            IN  HGIGL_POST_PENDING_GL_ERRORS(m4)

\* A guard that forgets the size.
NothingToCopyIgnoringSize(copyOp) ==
    \/ copyOp.cpuSourceBuffer = NullPtr
    \/ copyOp.gpuDestinationBuffer \in NullHandles

\* The guard of CopyBufferCpuToGpu: there is nothing to copy.
NothingToCopy(copyOp) ==
    \/ copyOp.byteSize = 0
    \/ copyOp.cpuSourceBuffer = NullPtr
    \/ copyOp.gpuDestinationBuffer \in NullHandles

CopyBufferCpuToGpuFn(m, copyOp, env) ==
    IF NothingToCopy(copyOp)
    THEN m
    ELSE
    LET m1 == Resolve(m, copyOp.gpuDestinationBuffer)
        glBuffer == m1.ret
        src == <<copyOp.cpuSourceBuffer, copyOp.sourceByteOffset>>
        dstOffset == copyOp.destinationByteOffset
        m2 == glNamedBufferSubData(
                  m1, GetBufferId(glBuffer), dstOffset, copyOp.byteSize, src)
    IN  glMemoryBarrier(m2, "GL_BUFFER_UPDATE_BARRIER_BIT")

\* The attachments of the two framebuffers, by the usage flag.
ResolveAttach(m, usage, readFramebuffer, writeFramebuffer, readAttachment, writeAttachment) ==
    LET depth == "DepthTarget" \in usage
        drawBuf == IF depth THEN <<"GL_NONE">> ELSE <<"GL_COLOR_ATTACHMENT0">>
        unused == IF depth THEN "GL_COLOR_ATTACHMENT0" ELSE "GL_DEPTH_ATTACHMENT"
        used == IF depth THEN "GL_DEPTH_ATTACHMENT" ELSE "GL_COLOR_ATTACHMENT0"
        a1 == glNamedFramebufferDrawBuffers(m, readFramebuffer, drawBuf)
        a2 == glNamedFramebufferDrawBuffers(a1, writeFramebuffer, drawBuf)
        a3 == glNamedFramebufferTexture(a2, readFramebuffer, unused, 0)
        a4 == glNamedFramebufferTexture(a3, writeFramebuffer, unused, 0)
        a5 == glNamedFramebufferTexture(a4, readFramebuffer, used, readAttachment)
    IN  glNamedFramebufferTexture(a5, writeFramebuffer, used, writeAttachment)

\* A restore that binds the saved read binding to both targets.
RestoreFramebuffersReadOnly(m, restoreRead, restoreWrite) ==
    glBindFramebuffer(
        glBindFramebuffer(m, "GL_READ_FRAMEBUFFER", restoreRead),
        "GL_DRAW_FRAMEBUFFER", restoreRead)

\* The two binds that put back the bindings saved before the blit.
RestoreFramebuffers(m, restoreRead, restoreWrite) ==
    glBindFramebuffer(
        glBindFramebuffer(m, "GL_READ_FRAMEBUFFER", restoreRead),
        "GL_DRAW_FRAMEBUFFER", restoreWrite)

\* The body of ResolveImage from the completeness checks on.
ResolveBlit(m, resolveOp, readFramebuffer, writeFramebuffer, env) ==
    LET s1 == glCheckNamedFramebufferStatus(
                  m, readFramebuffer, "GL_READ_FRAMEBUFFER", env.statusRead)
        s2 == TF_VERIFY(s1, s1.ret = "GL_FRAMEBUFFER_COMPLETE")
        s3 == glCheckNamedFramebufferStatus(
                  s2, writeFramebuffer, "GL_DRAW_FRAMEBUFFER", env.statusWrite)
        s4 == TF_VERIFY(s3, s3.ret = "GL_FRAMEBUFFER_COMPLETE")
        mask == IF "DepthTarget" \in resolveOp.usage
                THEN "GL_DEPTH_BUFFER_BIT" ELSE "GL_COLOR_BUFFER_BIT"
        b1 == glGetIntegerv(s4, "GL_READ_FRAMEBUFFER_BINDING")
        restoreRead == b1.ret
        b2 == glGetIntegerv(b1, "GL_DRAW_FRAMEBUFFER_BINDING")
        restoreWrite == b2.ret
        b3 == glBindFramebuffer(b2, "GL_READ_FRAMEBUFFER", readFramebuffer)
        b4 == glBindFramebuffer(b3, "GL_DRAW_FRAMEBUFFER", writeFramebuffer)
        src == resolveOp.sourceRegion
        dst == resolveOp.destinationRegion
        b5 == glBlitFramebuffer(b4, <<src[1], src[2], src[3], src[4]>>,
                                <<dst[1], dst[2], dst[3], dst[4]>>,
                                mask, "GL_NEAREST")
        b7 == RestoreFramebuffers(b5, restoreRead, restoreWrite)
        b8 == glDeleteFramebuffers(b7, readFramebuffer)
        b9 == glDeleteFramebuffers(b8, writeFramebuffer)
    IN  HGIGL_POST_PENDING_GL_ERRORS(b9)

ResolveImageFn(m, resolveOp, env) ==
    LET m1 == glCreateFramebuffers(m)
        readFramebuffer == m1.ret
        m2 == glCreateFramebuffers(m1)
        writeFramebuffer == m2.ret
        m3 == Resolve(m2, resolveOp.source)
        glSrcTexture == m3.ret
        m4 == Resolve(m3, resolveOp.destination)
        glDstTexture == m4.ret
    IN  IF glSrcTexture = NullPtr \/ glDstTexture = NullPtr
        THEN TF_CODING_ERROR(m4)
        ELSE
        LET readAttachment == GetTextureId(glSrcTexture)
            m5 == glIsTexture(m4, readAttachment)
            m6 == TF_VERIFY(m5, m5.ret)
            writeAttachment == GetTextureId(glDstTexture)
            m7 == glIsTexture(m6, writeAttachment)
            m8 == TF_VERIFY(m7, m7.ret)
            m9 == ResolveAttach(m8, resolveOp.usage, readFramebuffer,
                                writeFramebuffer, readAttachment, writeAttachment)
        IN  ResolveBlit(m9, resolveOp, readFramebuffer, writeFramebuffer, env)

\* A SetViewport that sets the scissor to the rectangle as well.
SetViewportFnWithScissor(m, vp, env) == glScissor(glViewport(m, vp), vp)

SetViewportFn(m, vp, env) == glViewport(m, vp)

SetScissorFn(m, sc, env) == glScissor(m, sc)

\* p->BindPipeline() and rb->BindResources() are the bind routines of the
\* objects; each is logged as one call.
BindPipelineFn(m, pipeline, env) ==
    LET m1 == Resolve(m, pipeline)
    IN  IF m1.ret # NullPtr
        THEN Call(m1, <<"HgiGLPipeline::BindPipeline", m1.ret>>)
        ELSE m1

BindResourcesFn(m, res, env) ==
    LET m1 == Resolve(m, res)
    IN  IF m1.ret # NullPtr
        THEN Call(m1, <<"HgiGLResourceBindings::BindResources", m1.ret>>)
        ELSE m1

\* The object whose fields an access through pointer ptr reads: the object
\* itself, or for a null pointer whatever the environment decides.
Pointee(ptr, env) == IF ptr = NullPtr THEN env.undefined ELSE ptr

\* Every buffer bound at the first slot.
BindingIndexFirst(firstBinding, i) == firstBinding

\* The binding slot of the i-th buffer: firstBinding + i.
BindingIndex(firstBinding, i) == firstBinding + i

\* One iteration of the loop of BindVertexBuffers, for index i (0-based).
BindVertexBufferAt(m, cap, i, env) ==
    LET m1 == Resolve(m, cap.vertexBuffers[i + 1])
        buf == m1.ret
        badBuf == buf = NullPtr
        badOffset == i >= Len(cap.byteOffsets)
        m2 == [m1 EXCEPT !.nullDeref = @ \/ badBuf, !.oobRead = @ \/ badOffset]
    IN  IF (badBuf \/ badOffset) /\ env.undefined = "crash"
        THEN Crash(m2)
        ELSE
        LET desc == BufferDesc(Pointee(buf, env))
            m3 == TF_VERIFY(m2, "Vertex" \in desc.usage)
            offset == IF badOffset THEN GarbageOffset ELSE cap.byteOffsets[i + 1]
        IN  glBindVertexBuffer(m3, BindingIndex(cap.firstBinding, i),
                               GetBufferId(Pointee(buf, env)), offset,
                               desc.vertexStride)

RECURSIVE BindVertexBuffersLoop(_, _, _, _)
BindVertexBuffersLoop(m, cap, i, env) ==
    IF i >= Len(cap.vertexBuffers) \/ m.crashed
    THEN m
    ELSE BindVertexBuffersLoop(BindVertexBufferAt(m, cap, i, env), cap, i + 1, env)

BindVertexBuffersFn(m, cap, env) ==
    LET m1 == TF_VERIFY(m, Len(cap.byteOffsets) = Len(cap.vertexBuffers))
        m2 == TF_VERIFY(m1, Len(cap.byteOffsets) = Len(cap.vertexBuffers))
        m3 == BindVertexBuffersLoop(m2, cap, 0, env)
    IN  IF m3.crashed THEN m3 ELSE HGIGL_POST_PENDING_GL_ERRORS(m3)

\* The body of DrawIndexed after the verification of instanceCount.
DrawIndexedBody(m, cap, env) ==
    LET m2 == Resolve(m, cap.indexBuffer)
        indexBuf == m2.ret
        m3 == [m2 EXCEPT !.nullDeref = (indexBuf = NullPtr)]
    IN  IF indexBuf = NullPtr /\ env.undefined = "crash"
        THEN Crash(m3)
        ELSE
        LET indexDesc == BufferDesc(Pointee(indexBuf, env))
            m4 == TF_VERIFY(m3, "Index32" \in indexDesc.usage)
            m5 == glBindBuffer(m4, "GL_ELEMENT_ARRAY_BUFFER",
                               GetBufferId(Pointee(indexBuf, env)))
            m6 == glDrawElementsInstancedBaseVertex(
                      m5, cap.indexCount, cap.indexBufferByteOffset,
                      cap.instanceCount, cap.vertexOffset)
        IN  HGIGL_POST_PENDING_GL_ERRORS(m6)

\* A draw that returns after the failed verification.
DrawIndexedFnSkippingZero(m, cap, env) ==
    LET m1 == TF_VERIFY(m, cap.instanceCount > 0)
    IN  IF cap.instanceCount > 0 THEN DrawIndexedBody(m1, cap, env) ELSE m1

\* TF_VERIFY(instanceCount > 0) does not return: the body follows.
DrawIndexedFn(m, cap, env) ==
    DrawIndexedBody(TF_VERIFY(m, cap.instanceCount > 0), cap, env)

(***************************************************************************)
(* BindFramebufferOp.  The encoder description, its HasAttachments, the    *)
(* enum conversions and the device's framebuffer cache are declared        *)
(* outside ops.cpp.                                                        *)
(***************************************************************************)
\* HgiGraphicsEncoderDesc::HasAttachments
HasAttachments(desc) ==
    desc.colorAttachmentDescs # <<>> \/ desc.depthTexture \notin NullHandles

\* HgiGLConversions::GetBlendFactor
GetBlendFactor(factor) ==
    CASE factor = "HgiBlendFactorOne" -> "GL_ONE"
      [] factor = "HgiBlendFactorSrcAlpha" -> "GL_SRC_ALPHA"
      [] factor = "HgiBlendFactorOneMinusSrcAlpha" -> "GL_ONE_MINUS_SRC_ALPHA"
      [] OTHER -> "GL_ZERO"

\* HgiGLConversions::GetBlendEquation
GetBlendEquation(op) ==
    CASE op = "HgiBlendOpSubtract" -> "GL_FUNC_SUBTRACT"
      [] OTHER -> "GL_FUNC_ADD"

\* GL_COLOR_ATTACHMENT0 + i
ColorAttachment(i) ==
    CASE i = 0 -> "GL_COLOR_ATTACHMENT0"
      [] i = 1 -> "GL_COLOR_ATTACHMENT1"
      [] OTHER -> "GL_COLOR_ATTACHMENT2"

\* The textures of the description are attached to framebuffer fb: the
\* color textures from index i (0-based) on, then the depth texture.
RECURSIVE AttachTextures(_, _, _, _)
AttachTextures(m, fb, desc, i) ==
    IF i < Len(desc.colorTextures)
    THEN AttachTextures(
             glNamedFramebufferTexture(m, fb, ColorAttachment(i),
                                       GetTextureId(desc.colorTextures[i + 1])),
             fb, desc, i + 1)
    ELSE IF desc.depthTexture \notin NullHandles
    THEN glNamedFramebufferTexture(m, fb, "GL_DEPTH_ATTACHMENT",
                                   GetTextureId(desc.depthTexture))
    ELSE m

\* The draw buffers of a framebuffer for the description: its color
\* attachments, or the explicit "no color attachment" configuration.
DrawBuffersOf(desc) ==
    IF desc.colorTextures = <<>>
    THEN <<"GL_NONE">>
    ELSE [i \in 1 .. Len(desc.colorTextures) |-> ColorAttachment(i - 1)]

\* A construction that attaches the textures first.
CreateFramebufferAttachingFirst(m, desc) ==
    LET m1 == glCreateFramebuffers(m)
        fb == m1.ret
        m2 == AttachTextures(m1, fb, desc, 0)
        m3 == glNamedFramebufferDrawBuffers(m2, fb, DrawBuffersOf(desc))
    IN  [m3 EXCEPT !.ret = fb]

\* The construction of a framebuffer that matches the attachment set: the
\* draw-buffer configuration is set before the textures are attached.
CreateFramebuffer(m, desc) ==
    LET m1 == glCreateFramebuffers(m)
        fb == m1.ret
        m2 == glNamedFramebufferDrawBuffers(m1, fb, DrawBuffersOf(desc))
        m3 == AttachTextures(m2, fb, desc, 0)
    IN  [m3 EXCEPT !.ret = fb]

\* HgiGLDevice::AcquireFramebuffer: the framebuffer cached for the
\* description, constructed on its first use.
AcquireFramebuffer(m, desc) ==
    IF \E e \in m.gl.fbCache : e[1] = desc
    THEN [Call(m, <<"HgiGLDevice::AcquireFramebuffer">>)
            EXCEPT !.ret = (CHOOSE e \in m.gl.fbCache : e[1] = desc)[2]]
    ELSE LET m1 == CreateFramebuffer(Call(m, <<"HgiGLDevice::AcquireFramebuffer">>), desc)
         IN  [m1 EXCEPT !.gl.fbCache = @ \cup {<<desc, m1.ret>>}]

\* An iteration that clears whatever the load op is.
ApplyColorAttachmentClearing(m, desc, i) ==
    LET colorAttachment == desc.colorAttachmentDescs[i + 1]
        m1 == glClearBufferfv(m, "GL_COLOR", i, colorAttachment.clearValue)
        m2 == glBlendFuncSeparatei(
                  m1, i,
                  GetBlendFactor(colorAttachment.srcColorBlendFactor),
                  GetBlendFactor(colorAttachment.dstColorBlendFactor),
                  GetBlendFactor(colorAttachment.srcAlphaBlendFactor),
                  GetBlendFactor(colorAttachment.dstAlphaBlendFactor))
    IN  glBlendEquationSeparatei(
            m2, i,
            GetBlendEquation(colorAttachment.colorBlendOp),
            GetBlendEquation(colorAttachment.alphaBlendOp))

\* One iteration of the loop over the color attachments, for index i
\* (0-based).
ApplyColorAttachment(m, desc, i) ==
    LET colorAttachment == desc.colorAttachmentDescs[i + 1]
        m1 == IF colorAttachment.loadOp = "HgiAttachmentLoadOpClear"
              THEN glClearBufferfv(m, "GL_COLOR", i, colorAttachment.clearValue)
              ELSE m
        m2 == glBlendFuncSeparatei(
                  m1, i,
                  GetBlendFactor(colorAttachment.srcColorBlendFactor),
                  GetBlendFactor(colorAttachment.dstColorBlendFactor),
                  GetBlendFactor(colorAttachment.srcAlphaBlendFactor),
                  GetBlendFactor(colorAttachment.dstAlphaBlendFactor))
    IN  glBlendEquationSeparatei(
            m2, i,
            GetBlendEquation(colorAttachment.colorBlendOp),
            GetBlendEquation(colorAttachment.alphaBlendOp))

RECURSIVE ApplyColorAttachments(_, _, _)
ApplyColorAttachments(m, desc, i) ==
    IF i >= Len(desc.colorAttachmentDescs)
    THEN m
    ELSE ApplyColorAttachments(ApplyColorAttachment(m, desc, i), desc, i + 1)

\* The flag of the first attachment alone.
FirstBlendEnabled(desc) ==
    /\ desc.colorAttachmentDescs # <<>>
    /\ desc.colorAttachmentDescs[1].blendEnabled

\* blendEnabled |= colorAttachment.blendEnabled, over the attachments.
AnyBlendEnabled(desc) ==
    \E i \in 1 .. Len(desc.colorAttachmentDescs) :
        desc.colorAttachmentDescs[i].blendEnabled

BindFramebufferOpFn(m, desc, env) ==
    LET m1 == TF_VERIFY(m, HasAttachments(desc))
        m2 == AcquireFramebuffer(m1, desc)
        framebuffer == m2.ret
        m3 == glBindFramebuffer(m2, "GL_FRAMEBUFFER", framebuffer)
        m4 == ApplyColorAttachments(m3, desc, 0)
        depthAttachment == desc.depthAttachmentDesc
        m5 == IF /\ desc.depthTexture \notin NullHandles
                 /\ depthAttachment.loadOp = "HgiAttachmentLoadOpClear"
              THEN glClearBufferfv(m4, "GL_DEPTH", 0, depthAttachment.clearValue)
              ELSE m4
        m6 == IF AnyBlendEnabled(desc)
              THEN glEnable(m5, "GL_BLEND")
              ELSE glDisable(m5, "GL_BLEND")
    IN  HGIGL_POST_PENDING_GL_ERRORS(m6)

(***************************************************************************)
(* HdxColorCorrectionTask::_ApplyColorCorrection: the full-screen pass     *)
(* that writes the color-corrected pixels.  task holds the members of the  *)
(* task object the pass reads; useOCIO is decided by the build, the        *)
(* correction mode and the environment.                                    *)
(***************************************************************************)
\* The program and the textures are bound and the vertex attributes set up.
BindCorrectionInputs(m, task) ==
    LET programId == task.programId
        a1 == glUseProgram(m, programId)
        a2 == glActiveTexture(a1, "GL_TEXTURE0")
        a3 == glBindTexture(a2, "GL_TEXTURE_2D", task.texture)
        a4 == glUniform1i(a3, task.locations.colorIn, 0)
        a5 == IF task.useOCIO
              THEN glUniform1i(
                       glBindTexture(
                           glActiveTexture(glEnable(a4, "GL_TEXTURE_3D"),
                                           "GL_TEXTURE1"),
                           "GL_TEXTURE_3D", task.texture3dLUT),
                       task.locations.lut3dIn, 1)
              ELSE a4
        a6 == glBindBuffer(a5, "GL_ARRAY_BUFFER", task.vertexBuffer)
        a7 == glVertexAttribPointer(a6, task.locations.position, 4, 24, 0)
        a8 == glEnableVertexAttribArray(a7, task.locations.position)
        a9 == glVertexAttribPointer(a8, task.locations.uvIn, 2, 24, 16)
    IN  glEnableVertexAttribArray(a9, task.locations.uvIn)

\* The program, the textures and the vertex attributes are unbound.
UnbindCorrectionInputs(m, task) ==
    LET u1 == glBindBuffer(m, "GL_ARRAY_BUFFER", 0)
        u2 == glDisableVertexAttribArray(u1, task.locations.position)
        u3 == glDisableVertexAttribArray(u2, task.locations.uvIn)
        u4 == glUseProgram(u3, 0)
        u5 == glActiveTexture(u4, "GL_TEXTURE0")
        u6 == glBindTexture(u5, "GL_TEXTURE_2D", 0)
    IN  IF task.useOCIO
        THEN glDisable(
                 glBindTexture(glActiveTexture(u6, "GL_TEXTURE1"),
                               "GL_TEXTURE_3D", 0),
                 "GL_TEXTURE_3D")
        ELSE u6

\* A GLboolean passed where a GLuint mask is expected.
BooleanAsMask(flag) == IF flag THEN 1 ELSE 0

\* A pass that leaves blending as the draw needed it.
RestoreBlendNever(m, restoreblendEnabled) == m

\* if (restoreblendEnabled) glEnable(GL_BLEND);
RestoreBlend(m, restoreblendEnabled) ==
    IF restoreblendEnabled THEN glEnable(m, "GL_BLEND") ELSE m

ApplyColorCorrectionFn(m, task, env) ==
    LET m1 == BindCorrectionInputs(m, task)
        s1 == glGetBooleanv(m1, "GL_DEPTH_WRITEMASK")
        restoreDepthWriteMask == s1.ret
        s2 == glGetBooleanv(s1, "GL_STENCIL_WRITEMASK")
        restoreStencilWriteMask == s2.ret
        s3 == glDepthMask(s2, FALSE)
        s4 == glStencilMask(s3, BooleanAsMask(FALSE))
        s5 == glGetIntegerv(s4, "GL_DEPTH_FUNC")
        restoreDepthFunc == s5.ret
        s6 == glDepthFunc(s5, "GL_ALWAYS")
        s7 == glGetIntegerv(s6, "GL_VIEWPORT")
        restoreViewport == s7.ret
        s8 == glViewport(s7, <<0, 0, task.framebufferSize[1],
                               task.framebufferSize[2]>>)
        s9 == glGetBooleanv(s8, "GL_BLEND")
        restoreblendEnabled == s9.ret
        s10 == glDisable(s9, "GL_BLEND")
        s11 == glGetBooleanv(s10, "GL_SAMPLE_ALPHA_TO_COVERAGE")
        restoreAlphaToCoverage == s11.ret
        s12 == glDisable(s11, "GL_SAMPLE_ALPHA_TO_COVERAGE")
        d1 == glDrawArrays(s12, "GL_TRIANGLES", 0, 3)
        r1 == IF restoreAlphaToCoverage
              THEN glEnable(d1, "GL_SAMPLE_ALPHA_TO_COVERAGE") ELSE d1
        r2 == RestoreBlend(r1, restoreblendEnabled)
        r3 == glViewport(r2, <<restoreViewport[1], restoreViewport[2],
                               restoreViewport[3], restoreViewport[4]>>)
        r4 == glDepthFunc(r3, restoreDepthFunc)
        r5 == glDepthMask(r4, restoreDepthWriteMask)
        r6 == glStencilMask(r5, BooleanAsMask(restoreStencilWriteMask))
        r7 == UnbindCorrectionInputs(r6, task)
    IN  GLF_POST_PENDING_GL_ERRORS(r7)

(***************************************************************************)
(* HdxColorCorrectionTask.  A task value t holds the members of the task   *)
(* object; a method that changes members returns the new task value in the *)
(* ret field of the machine.  HdStGLSLProgram, the render index and the    *)
(* render buffers are declared outside the task's file: a build succeeds   *)
(* or fails as the environment decides (env.build).                        *)
(***************************************************************************)
\* then applied to the value of first: a step of a method followed by the
\* rest of the method.
Bind(first, then(_)) == CHOOSE r \in {then(x) : x \in {first}} : TRUE

\* _shaderProgram when it holds no program.
NoProgram == [id |-> 0, fragCode |-> <<>>]

\* _locations as glGetUniformLocation / glGetAttribLocation report them.
ShaderLocations == [colorIn |-> 0, lut3dIn |-> 1, position |-> 0, uvIn |-> 1]

\* The members after the constructor.
NewTask ==
    [shaderProgram |-> NoProgram, texture |-> 0, texture3dLUT |-> 0,
     textureSize |-> <<0, 0>>, vertexBuffer |-> 0, copyFramebuffer |-> 0,
     framebufferSize |-> <<0, 0>>, lut3dSizeOCIO |-> 0,
     aovBufferPath |-> "", aovBuffer |-> NullPtr, aovTexture |-> NullPtr,
     aovFramebuffer |-> 0, colorCorrectionMode |-> "", displayOCIO |-> "",
     viewOCIO |-> "", colorspaceOCIO |-> "", looksOCIO |-> "", aovName |-> "",
     locations |-> ShaderLocations]

\* useOCIO, in a build with the OCIO plugin and with $OCIO set.
UseOCIO(t) == t.colorCorrectionMode = "openColorIO"

\* The text of the fragment shader built from the members of t.
FragCode(t) ==
    IF UseOCIO(t)
    THEN <<"#version 120", "#define GLSLFX_USE_OCIO", "ColorCorrectionFragment",
           <<"OCIODisplay", t.displayOCIO, t.viewOCIO, t.colorspaceOCIO,
             t.looksOCIO>> >>
    ELSE <<"#version 120", "ColorCorrectionFragment">>

\* HdRenderIndex::GetBprim(renderBuffer, path)
GetBprim(path) == IF path = "/aov" THEN "aovColor" ELSE NullPtr

\* The HgiTextureHandle held by HdRenderBuffer::GetResource(false), or the
\* null handle when the resource holds none.
GetResource(buffer) == IF buffer = "aovColor" THEN "texColor" ELSE "texNull"

\* _CreateBufferResources
CreateBufferResources(m, t) ==
    IF t.vertexBuffer # 0
    THEN [m EXCEPT !.ret = t]
    ELSE LET m1 == glGenBuffers(m)
             vertexBuffer == m1.ret
             m2 == glBindBuffer(m1, "GL_ARRAY_BUFFER", vertexBuffer)
             m3 == glBufferData(m2, "GL_ARRAY_BUFFER", 72, "GL_STATIC_DRAW")
             m4 == glBindBuffer(m3, "GL_ARRAY_BUFFER", 0)
         IN  [GLF_POST_PENDING_GL_ERRORS(m4)
                EXCEPT !.ret = [t EXCEPT !.vertexBuffer = vertexBuffer]]

\* _CreateOpenColorIOResources: the 3D LUT texture is replaced.
CreateOpenColorIOResources(m, t) ==
    LET lut3dSizeOCIO == IF t.lut3dSizeOCIO = 0 THEN 65 ELSE t.lut3dSizeOCIO
        m1 == IF t.texture3dLUT # 0 THEN glDeleteTextures(m, t.texture3dLUT) ELSE m
        m2 == glGetIntegerv(m1, "GL_TEXTURE_BINDING_3D")
        restoreTexture == m2.ret
        m3 == glGenTextures(m2)
        texture3dLUT == m3.ret
        m4 == glBindTexture(m3, "GL_TEXTURE_3D", texture3dLUT)
        m5 == glTexParameteri(m4, "GL_TEXTURE_3D", "GL_TEXTURE_MIN_FILTER", "GL_LINEAR")
        m6 == glTexParameteri(m5, "GL_TEXTURE_3D", "GL_TEXTURE_MAG_FILTER", "GL_LINEAR")
        m7 == glTexParameteri(m6, "GL_TEXTURE_3D", "GL_TEXTURE_WRAP_S", "GL_CLAMP_TO_EDGE")
        m8 == glTexParameteri(m7, "GL_TEXTURE_3D", "GL_TEXTURE_WRAP_T", "GL_CLAMP_TO_EDGE")
        m9 == glTexParameteri(m8, "GL_TEXTURE_3D", "GL_TEXTURE_WRAP_R", "GL_CLAMP_TO_EDGE")
        m10 == glTexImage3D(m9, "GL_TEXTURE_3D", "GL_RGB32F", lut3dSizeOCIO)
        m11 == glBindTexture(m10, "GL_TEXTURE_3D", restoreTexture)
    IN  [GLF_POST_PENDING_GL_ERRORS(m11)
            EXCEPT !.ret = [t EXCEPT !.lut3dSizeOCIO = lut3dSizeOCIO,
                                     !.texture3dLUT = texture3dLUT]]

\* The program built from the members of t, or the failure of the build.
BuildProgram(m, t, env) ==
    LET fragCode == FragCode(t)
        m2 == Call(m, <<"HdStGLSLProgram::CompileShader", "GL_VERTEX_SHADER">>)
        m3 == Call(m2, <<"HdStGLSLProgram::CompileShader", "GL_FRAGMENT_SHADER",
                         fragCode>>)
        failed == [task |-> [t EXCEPT !.shaderProgram = NoProgram], ok |-> FALSE]
        programId == Max(m.gl.programs \cup {0}) + 1
        m4 == [Call(m3, <<"HdStGLSLProgram::Link">>)
                 EXCEPT !.gl.programs = @ \cup {programId}]
    IN  IF env.build = "compile"
        THEN [TF_CODING_ERROR(m3) EXCEPT !.ret = failed]
        ELSE IF env.build = "link"
        THEN [TF_CODING_ERROR(Call(m3, <<"HdStGLSLProgram::Link">>))
                EXCEPT !.ret = failed]
        ELSE [GLF_POST_PENDING_GL_ERRORS(m4)
                EXCEPT !.ret =
                   [task |-> [t EXCEPT !.shaderProgram =
                                          [id |-> programId, fragCode |-> fragCode],
                                       !.locations = ShaderLocations],
                    ok |-> TRUE]]

\* _CreateShaderResources: ret is the task and the boolean returned.
CreateShaderResources(m, t, env) ==
    IF t.shaderProgram # NoProgram
    THEN [m EXCEPT !.ret = [task |-> t, ok |-> TRUE]]
    ELSE IF UseOCIO(t)
    THEN Bind(CreateOpenColorIOResources(m, t),
              LAMBDA m1 : BuildProgram(m1, m1.ret, env))
    ELSE BuildProgram(m, t, env)

\* A copy texture that is created without the old one being deleted.
CreateCopyTextureLeakingOld(m, t) ==
    LET m2 == glGetIntegerv(m, "GL_TEXTURE_BINDING_2D")
        restoreTexture == m2.ret
        m3 == glGenTextures(m2)
        texture == m3.ret
        m4 == glBindTexture(m3, "GL_TEXTURE_2D", texture)
        m9 == glTexImage2D(m4, "GL_TEXTURE_2D", "GL_RGBA16F",
                           t.textureSize[1], t.textureSize[2])
        m10 == glBindTexture(m9, "GL_TEXTURE_2D", restoreTexture)
    IN  [m10 EXCEPT !.ret = [t EXCEPT !.texture = texture]]

\* The copy texture is replaced by one of size t.textureSize; the 2D
\* texture binding of the active unit is put back.
CreateCopyTexture(m, t) ==
    LET m1 == IF t.texture # 0 THEN glDeleteTextures(m, t.texture) ELSE m
        m2 == glGetIntegerv(m1, "GL_TEXTURE_BINDING_2D")
        restoreTexture == m2.ret
        m3 == glGenTextures(m2)
        texture == m3.ret
        m4 == glBindTexture(m3, "GL_TEXTURE_2D", texture)
        m5 == glTexParameteri(m4, "GL_TEXTURE_2D", "GL_TEXTURE_MIN_FILTER", "GL_NEAREST")
        m6 == glTexParameteri(m5, "GL_TEXTURE_2D", "GL_TEXTURE_MAG_FILTER", "GL_NEAREST")
        m7 == glTexParameteri(m6, "GL_TEXTURE_2D", "GL_TEXTURE_WRAP_S", "GL_CLAMP_TO_EDGE")
        m8 == glTexParameteri(m7, "GL_TEXTURE_2D", "GL_TEXTURE_WRAP_T", "GL_CLAMP_TO_EDGE")
        m9 == glTexImage2D(m8, "GL_TEXTURE_2D", "GL_RGBA16F",
                           t.textureSize[1], t.textureSize[2])
        m10 == glBindTexture(m9, "GL_TEXTURE_2D", restoreTexture)
    IN  [m10 EXCEPT !.ret = [t EXCEPT !.texture = texture]]

\* An attachment pass that leaves the framebuffers it bound.
AttachCopyTexturesKeepingBindings(m, t, aovTexture) ==
    LET m1 == glGetIntegerv(m, "GL_READ_FRAMEBUFFER_BINDING")
        m2 == glGetIntegerv(m1, "GL_DRAW_FRAMEBUFFER_BINDING")
        m3 == glBindFramebuffer(m2, "GL_DRAW_FRAMEBUFFER", t.copyFramebuffer)
        m4 == glFramebufferTexture2D(m3, "GL_DRAW_FRAMEBUFFER",
                                     "GL_COLOR_ATTACHMENT0", t.texture)
    IN  IF aovTexture # NullPtr
        THEN glFramebufferTexture2D(
                 glBindFramebuffer(m4, "GL_READ_FRAMEBUFFER", t.aovFramebuffer),
                 "GL_READ_FRAMEBUFFER", "GL_COLOR_ATTACHMENT0",
                 GetTextureId(aovTexture))
        ELSE m4

\* The copy texture is attached to the copy framebuffer and the AOV
\* texture to the AOV framebuffer; the framebuffer bindings are put back.
AttachCopyTextures(m, t, aovTexture) ==
    LET m1 == glGetIntegerv(m, "GL_READ_FRAMEBUFFER_BINDING")
        restoreReadFB == m1.ret
        m2 == glGetIntegerv(m1, "GL_DRAW_FRAMEBUFFER_BINDING")
        restoreDrawFB == m2.ret
        m3 == glBindFramebuffer(m2, "GL_DRAW_FRAMEBUFFER", t.copyFramebuffer)
        m4 == glFramebufferTexture2D(m3, "GL_DRAW_FRAMEBUFFER",
                                     "GL_COLOR_ATTACHMENT0", t.texture)
        m5 == IF aovTexture # NullPtr
              THEN glFramebufferTexture2D(
                       glBindFramebuffer(m4, "GL_READ_FRAMEBUFFER", t.aovFramebuffer),
                       "GL_READ_FRAMEBUFFER", "GL_COLOR_ATTACHMENT0",
                       GetTextureId(aovTexture))
              ELSE m4
        m6 == glBindFramebuffer(m5, "GL_READ_FRAMEBUFFER", restoreReadFB)
    IN  glBindFramebuffer(m6, "GL_DRAW_FRAMEBUFFER", restoreDrawFB)

\* GfVec2i fboSize = _framebufferSize, or the viewport size, which is then
\* stored in _framebufferSize.
FramebufferSize(m, t) ==
    IF t.framebufferSize[1] <= 0 \/ t.framebufferSize[2] <= 0
    THEN LET v == glGetIntegerv(m, "GL_VIEWPORT")
         IN  [v EXCEPT !.ret = [t EXCEPT !.framebufferSize = <<v.ret[3], v.ret[4]>>]]
    ELSE [m EXCEPT !.ret = t]

\* _CreateFramebufferResources from the framebuffer objects on; t has the
\* copy texture, createTexture tells whether it is a new one.
CreateFramebuffers(m, t, createTexture) ==
    Bind(IF t.copyFramebuffer = 0 THEN glGenFramebuffers(m)
         ELSE [m EXCEPT !.ret = t.copyFramebuffer],
      LAMBDA m3 :
        Bind(IF t.aovFramebuffer = 0 THEN glGenFramebuffers(m3)
             ELSE [m3 EXCEPT !.ret = t.aovFramebuffer],
          LAMBDA m4 :
            LET t4 == [t EXCEPT !.copyFramebuffer = m3.ret,
                                !.aovFramebuffer = m4.ret]
                texHandle == IF t4.aovBuffer # NullPtr
                             THEN GetResource(t4.aovBuffer) ELSE "texNull"
                aovTexture == Get(texHandle)
            IN  IF createTexture \/ aovTexture # t4.aovTexture
                THEN [GLF_POST_PENDING_GL_ERRORS(
                          AttachCopyTextures(m4, t4, aovTexture))
                        EXCEPT !.ret = [t4 EXCEPT !.aovTexture = aovTexture]]
                ELSE [GLF_POST_PENDING_GL_ERRORS(m4) EXCEPT !.ret = t4]))

\* _CreateFramebufferResources
CreateFramebufferResources(m, t) ==
    Bind(FramebufferSize(m, t),
      LAMBDA m1 :
        LET fboSize == m1.ret.framebufferSize
            createTexture == m1.ret.texture = 0 \/ fboSize # m1.ret.textureSize
        IN  IF createTexture
            THEN Bind(CreateCopyTexture(m1, [m1.ret EXCEPT !.textureSize = fboSize]),
                      LAMBDA m2 : CreateFramebuffers(m2, m2.ret, TRUE))
            ELSE CreateFramebuffers(m1, m1.ret, FALSE))

\* _CopyTexture
CopyTexture(m, t) ==
    LET m1 == glGetIntegerv(m, "GL_READ_FRAMEBUFFER_BINDING")
        restoreReadFB == m1.ret
        m2 == glGetIntegerv(m1, "GL_DRAW_FRAMEBUFFER_BINDING")
        restoreDrawFB == m2.ret
        m3 == IF t.aovTexture # NullPtr
              THEN glBindFramebuffer(m2, "GL_READ_FRAMEBUFFER", t.aovFramebuffer)
              ELSE glBindFramebuffer(m2, "GL_READ_FRAMEBUFFER", restoreDrawFB)
        m4 == glBindFramebuffer(m3, "GL_DRAW_FRAMEBUFFER", t.copyFramebuffer)
        width == t.textureSize[1]
        height == t.textureSize[2]
        m5 == glBlitFramebuffer(m4, <<0, 0, width, height>>, <<0, 0, width, height>>,
                                "GL_COLOR_BUFFER_BIT", "GL_NEAREST")
        m6 == glBindFramebuffer(m5, "GL_READ_FRAMEBUFFER", restoreReadFB)
        m7 == glBindFramebuffer(m6, "GL_DRAW_FRAMEBUFFER", restoreDrawFB)
    IN  GLF_POST_PENDING_GL_ERRORS(m7)

\* The members _ApplyColorCorrection reads.
CorrectionInputs(t) ==
    [programId |-> t.shaderProgram.id, texture |-> t.texture,
     texture3dLUT |-> t.texture3dLUT, vertexBuffer |-> t.vertexBuffer,
     framebufferSize |-> t.framebufferSize, locations |-> t.locations,
     useOCIO |-> UseOCIO(t)]

\* Execute from _CopyTexture on: the copy, then the pass, drawn into the
\* AOV framebuffer when there is an AOV texture.
CopyAndCorrect(m, t, env) ==
    Bind(CopyTexture(m, t),
      LAMBDA m1 :
        IF t.aovTexture # NullPtr
        THEN LET m2 == glGetIntegerv(m1, "GL_READ_FRAMEBUFFER_BINDING")
                 restoreReadFB == m2.ret
                 m3 == glGetIntegerv(m2, "GL_DRAW_FRAMEBUFFER_BINDING")
                 restoreDrawFB == m3.ret
                 m4 == glBindFramebuffer(m3, "GL_DRAW_FRAMEBUFFER", t.aovFramebuffer)
             IN  Bind(ApplyColorCorrectionFn(m4, CorrectionInputs(t), env),
                   LAMBDA m5 :
                     glBindFramebuffer(
                         glBindFramebuffer(m5, "GL_READ_FRAMEBUFFER", restoreReadFB),
                         "GL_DRAW_FRAMEBUFFER", restoreDrawFB))
        ELSE ApplyColorCorrectionFn(m1, CorrectionInputs(t), env))

\* HdxColorCorrectionTask::Execute
ExecuteFn(m, t, env) ==
    IF t.aovName # "" /\ t.aovName # "color"
    THEN [m EXCEPT !.ret = t]
    ELSE Bind(CreateBufferResources(m, t),
           LAMBDA m1 :
             Bind(CreateShaderResources(m1, m1.ret, env),
               LAMBDA m2 :
                 IF ~m2.ret.ok
                 THEN [m2 EXCEPT !.ret = m2.ret.task]
                 ELSE Bind(CreateFramebufferResources(m2, m2.ret.task),
                        LAMBDA m3 :
                          [CopyAndCorrect(m3, m3.ret, env) EXCEPT !.ret = m3.ret])))

\* A Sync that keeps the program it has.
SyncFnKeepingProgram(t, dirtyBits, retrieved, params) ==
    IF "DirtyParams" \in dirtyBits /\ retrieved
    THEN [t EXCEPT !.framebufferSize = params.framebufferSize,
                   !.colorCorrectionMode = params.colorCorrectionMode,
                   !.displayOCIO = params.displayOCIO,
                   !.viewOCIO = params.viewOCIO,
                   !.colorspaceOCIO = params.colorspaceOCIO,
                   !.looksOCIO = params.looksOCIO,
                   !.lut3dSizeOCIO = params.lut3dSizeOCIO,
                   !.aovName = params.aovName,
                   !.aovBufferPath = params.aovBufferPath]
    ELSE t

\* HdxColorCorrectionTask::Sync: the members after it.  retrieved is what
\* _GetTaskParams returns, params what it delivers.
SyncFn(t, dirtyBits, retrieved, params) ==
    IF "DirtyParams" \in dirtyBits /\ retrieved
    THEN [t EXCEPT !.framebufferSize = params.framebufferSize,
                   !.colorCorrectionMode = params.colorCorrectionMode,
                   !.displayOCIO = params.displayOCIO,
                   !.viewOCIO = params.viewOCIO,
                   !.colorspaceOCIO = params.colorspaceOCIO,
                   !.looksOCIO = params.looksOCIO,
                   !.lut3dSizeOCIO = params.lut3dSizeOCIO,
                   !.aovName = params.aovName,
                   !.aovBufferPath = params.aovBufferPath,
                   !.shaderProgram = NoProgram]
    ELSE t

\* HdChangeTracker::Clean
Clean == {}

\* HdChangeTracker::AllDirty, as far as the task reads it.
AllDirty == {"DirtyParams", "DirtyRenderTags"}

\* HdxColorCorrectionTaskParams as its constructor leaves it.
DefaultParams ==
    [framebufferSize |-> <<0, 0>>, colorCorrectionMode |-> "sRGB",
     displayOCIO |-> "", viewOCIO |-> "", colorspaceOCIO |-> "",
     looksOCIO |-> "", lut3dSizeOCIO |-> 0, aovName |-> "",
     aovBufferPath |-> ""]

\* HdxColorCorrectionTask::Prepare: the members after it.
PrepareFn(t) ==
    [t EXCEPT !.aovBuffer = IF t.aovBufferPath # "" THEN GetBprim(t.aovBufferPath)
                            ELSE NullPtr]

\* The invocation of a closure.
Run(m, op, env) ==
    CASE op.kind = "PushDebugGroup" -> PushDebugGroupFn(m, op.vals, env)
      [] op.kind = "PopDebugGroup" -> PopDebugGroupFn(m, op.vals, env)
      [] op.kind = "CopyTextureGpuToCpu" -> CopyTextureGpuToCpuFn(m, op.vals, env)
      [] op.kind = "CopyBufferCpuToGpu" -> CopyBufferCpuToGpuFn(m, op.vals, env)
      [] op.kind = "ResolveImage" -> ResolveImageFn(m, op.vals, env)
      [] op.kind = "SetViewport" -> SetViewportFn(m, op.vals, env)
      [] op.kind = "SetScissor" -> SetScissorFn(m, op.vals, env)
      [] op.kind = "BindPipeline" -> BindPipelineFn(m, op.vals, env)
      [] op.kind = "BindResources" -> BindResourcesFn(m, op.vals, env)
      [] op.kind = "BindVertexBuffers" -> BindVertexBuffersFn(m, op.vals, env)
      [] op.kind = "DrawIndexed" -> DrawIndexedFn(m, op.vals, env)
      [] op.kind = "BindFramebufferOp" -> BindFramebufferOpFn(m, op.vals, env)

(***************************************************************************)
(* The inputs: the descriptors the callers hand to the factories.          *)
(***************************************************************************)
\* The labels callers pass: pointers to storage of the caller.
Labels == {"labelA"}

\* What the storage of a label holds when the caller first passes it, and
\* what it holds after the caller has written to it again.
LabelText == "X"

OtherText == "Y"

Rects == {<<1, 2, 4, 4>>}

TextureGpuToCpuOps ==
    { [gpuSourceTexture |-> t, destinationBufferByteSize |-> n,
       startLayer |-> l[1], numLayers |-> l[2],
       sourceTexelOffset |-> <<0, 0, 0>>, mipLevel |-> 0] :
        t \in {"texNull", "texZeroId", "texColor"},
        n \in {0, 64},
        l \in { <<U32(0, 0), U32(0, 1)>>,
                <<U32(0, 2), U32(0, 1)>>,
                <<U32(LimbBase - 1, LimbBase - 1), U32(0, 2)>> } }
    \cup
    { [gpuSourceTexture |-> t, destinationBufferByteSize |-> 64,
       startLayer |-> U32(0, 0), numLayers |-> U32(0, 1),
       sourceTexelOffset |-> o, mipLevel |-> 0] :
        t \in {"texDepth", "texSampled"},
        o \in {<<0, 0, 0>>, <<1, 2, 0>>} }

BufferCpuToGpuOps ==
    { [byteSize |-> n, cpuSourceBuffer |-> p, gpuDestinationBuffer |-> b,
       sourceByteOffset |-> 2, destinationByteOffset |-> 1] :
        n \in {0, 4}, p \in {NullPtr, "cpuData"}, b \in {"bufNull", "vtxA"} }

\* A region is <<x, y, width, height>>.
Regions == {<<0, 0, 4, 4>>, <<1, 2, 2, 2>>}

ResolveImageOps ==
    { [source |-> a, destination |-> b, usage |-> u,
       sourceRegion |-> rs, destinationRegion |-> rd] :
        a \in {"texNull", "texColor"}, b \in {"texNull", "texDepth"},
        u \in {{"ColorTarget"}, {"DepthTarget"}},
        rs \in Regions, rd \in Regions }

VertexBufferBindings ==
    { [firstBinding |-> f, vertexBuffers |-> v[1], byteOffsets |-> v[2]] :
        f \in {0, 1},
        v \in { <<<<>>, <<>>>>,
                <<<<"vtxA">>, <<4>>>>,
                <<<<"vtxA", "vtxB">>, <<0, 4>>>>,
                <<<<"vtxB", "vtxA">>, <<4, 8>>>>,
                <<<<"vtxA", "vtxB">>, <<4>>>>,
                <<<<"vtxA">>, <<0, 4>>>>,
                <<<<"vtxA", "bufNull">>, <<0, 4>>>> } }

IndexedDraws ==
    { [indexBuffer |-> b, indexCount |-> 6, indexBufferByteOffset |-> 0,
       vertexOffset |-> 0, instanceCount |-> n, firstInstance |-> f] :
        b \in {"bufNull", "idx32", "idx16"}, n \in {0, 1}, f \in {0, 1} }

AttachmentDesc(loadOp, blendEnabled) ==
    [loadOp |-> loadOp, clearValue |-> <<0, 0, 0, 1>>,
     blendEnabled |-> blendEnabled,
     srcColorBlendFactor |-> "HgiBlendFactorSrcAlpha",
     dstColorBlendFactor |-> "HgiBlendFactorOneMinusSrcAlpha",
     srcAlphaBlendFactor |-> "HgiBlendFactorOne",
     dstAlphaBlendFactor |-> "HgiBlendFactorZero",
     colorBlendOp |-> "HgiBlendOpAdd", alphaBlendOp |-> "HgiBlendOpAdd"]

EncoderDesc(colors, depthTexture, depthLoadOp) ==
    [colorAttachmentDescs |-> colors,
     colorTextures |-> [i \in 1 .. Len(colors) |-> "texColor"],
     depthTexture |-> depthTexture,
     depthAttachmentDesc |-> AttachmentDesc(depthLoadOp, FALSE)]

\* An attachment description with its own clear value.
ClearingTo(value, blendEnabled) ==
    [AttachmentDesc("HgiAttachmentLoadOpClear", blendEnabled)
        EXCEPT !.clearValue = value]

GraphicsEncoderDescs ==
    { EncoderDesc(<<>>, "texNull", "HgiAttachmentLoadOpDontCare"),
      EncoderDesc(<<>>, "texDepth", "HgiAttachmentLoadOpClear"),
      EncoderDesc(<<>>, "texDepth", "HgiAttachmentLoadOpLoad"),
      EncoderDesc(<<AttachmentDesc("HgiAttachmentLoadOpClear", TRUE)>>,
                  "texNull", "HgiAttachmentLoadOpClear"),
      EncoderDesc(<<AttachmentDesc("HgiAttachmentLoadOpLoad", FALSE)>>,
                  "texNull", "HgiAttachmentLoadOpDontCare"),
      EncoderDesc(<<AttachmentDesc("HgiAttachmentLoadOpLoad", FALSE),
                    ClearingTo(<<1, 0, 0, 1>>, TRUE)>>,
                  "texDepth", "HgiAttachmentLoadOpLoad"),
      EncoderDesc(<<ClearingTo(<<1, 0, 0, 1>>, FALSE),
                    AttachmentDesc("HgiAttachmentLoadOpDontCare", FALSE),
                    ClearingTo(<<0, 1, 0, 1>>, FALSE)>>,
                  "texDepth", "HgiAttachmentLoadOpClear") }

(***************************************************************************)
(* The state.                                                              *)
(*   gl[c]      the binding state of GL context c                          *)
(*   last[c]    the last closure invoked on c: the closure, the GL state   *)
(*              it found, and what the invocation did                      *)
(*   rec[c]     what the factory calls made while c was current did        *)
(*   crashed    an undefined access ended the process                      *)
(*   nInvoked   closures invoked so far                                    *)
(*   cmds[c]    the command list recorded for c                            *)
(*   fpos[c]    0, or the index in cmds[c] of the op the flush is at       *)
(*   done[c]    the closures the running (or last) flush of c has invoked, *)
(*              each with the native calls it issued                       *)
(*   nRecorded  ops recorded so far                                        *)
(*   heap[p]    what the caller's storage behind label pointer p holds     *)
(*   passed[c]  for each op of cmds[c], the label characters the caller    *)
(*              passed when it recorded the op ("" for an op without)      *)
(*   task       the members of the color-correction task                   *)
(*   hd         the task as the render index sees it: the method it ran    *)
(*              last, the dirty bits that Sync left, the params last       *)
(*              delivered, whether the program is fresh (built with no     *)
(*              params delivered since) and whether it was before the      *)
(*              last method                                                *)
(***************************************************************************)
VARIABLES gl, last, rec, crashed, nInvoked, cmds, fpos, done, nRecorded, heap, passed, task, hd

vars == <<gl, last, rec, crashed, nInvoked, cmds, fpos, done, nRecorded, heap, passed, task, hd>>

NoOp == Closure("None", "none")

NoLast(g) ==
    [op |-> NoOp, pre |-> g, calls |-> <<>>, diag |-> <<>>, resolved |-> {},
     nullDeref |-> FALSE, oobRead |-> FALSE, crashed |-> FALSE]

NoRec == [calls |-> <<>>, resolved |-> {}]

InitWith(g) ==
    /\ gl = g
    /\ last = [c \in Contexts |-> NoLast(g[c])]
    /\ rec = [c \in Contexts |-> NoRec]
    /\ crashed = FALSE
    /\ nInvoked = 0
    /\ cmds = [c \in Contexts |-> <<>>]
    /\ fpos = [c \in Contexts |-> 0]
    /\ done = [c \in Contexts |-> <<>>]
    /\ nRecorded = 0
    /\ heap = [p \in Labels |-> LabelText]
    /\ passed = [c \in Contexts |-> <<>>]
    /\ task = NewTask
    /\ hd = [method |-> "None", dirtyBits |-> AllDirty, params |-> DefaultParams,
             fresh |-> FALSE, wasFresh |-> FALSE]

\* The ops run on a GL context the application has used before: any
\* framebuffer may be bound for reading and for drawing.
Init ==
    \E r \in {0, AppFramebuffer}, d \in {0, AppFramebuffer}, khr \in BOOLEAN :
      \E blend \in BOOLEAN :
        InitWith([c \in Contexts |->
                    IF c = MainContext
                    THEN [ContextState(r, d, khr) EXCEPT !.blend = blend]
                    ELSE ContextState(0, 0, FALSE)])

\* The environment env of an invocation, with the memory it can read.
WithMemory(env, memory) ==
    [statusRead |-> env.statusRead, statusWrite |-> env.statusWrite,
     undefined |-> env.undefined, memory |-> memory]

\* Code that ran on context c, named op, left the machine m.
Ran(c, op, m) ==
    /\ ~crashed
    /\ gl' = [gl EXCEPT ![c] = m.gl]
    /\ last' = [last EXCEPT ![c] =
                  [op |-> op, pre |-> gl[c], calls |-> m.calls,
                   diag |-> m.diag, resolved |-> m.resolved,
                   nullDeref |-> m.nullDeref, oobRead |-> m.oobRead,
                   crashed |-> m.crashed]]
    /\ crashed' = m.crashed
    /\ nInvoked' = nInvoked + 1

\* The closure op runs on context c.
Invoke(c, op, env) ==
    Ran(c, op, Run(Machine(gl[c]), op, WithMemory(env, heap)))

\* The environment of an invocation that queries no framebuffer status
\* and makes no undefined access.
NoEnv ==
    [statusRead |-> "GL_FRAMEBUFFER_COMPLETE",
     statusWrite |-> "GL_FRAMEBUFFER_COMPLETE", undefined |-> "crash"]

StatusEnvs ==
    [statusRead : FramebufferStatuses, statusWrite : FramebufferStatuses,
     undefined : {"crash"}]

UndefinedEnvs ==
    [statusRead : {"GL_FRAMEBUFFER_COMPLETE"},
     statusWrite : {"GL_FRAMEBUFFER_COMPLETE"}, undefined : UndefinedOutcomes]

\* The execution context may invoke one more closure on the main context.
CanExecute == nInvoked < MaxInvocations

flushVars == <<rec, cmds, fpos, done, nRecorded, heap, passed>>

taskVars == <<task, hd>>

PushDebugGroup ==
    /\ CanExecute
    /\ \E label \in Labels :
          Invoke(MainContext, Closure("PushDebugGroup", label), NoEnv)
    /\ UNCHANGED <<flushVars, taskVars>>

PopDebugGroup ==
    /\ CanExecute
    /\ Invoke(MainContext, Closure("PopDebugGroup", "none"), NoEnv)
    /\ UNCHANGED <<flushVars, taskVars>>

CopyTextureGpuToCpu ==
    /\ CanExecute
    /\ \E copyOp \in TextureGpuToCpuOps :
          Invoke(MainContext, Closure("CopyTextureGpuToCpu", copyOp), NoEnv)
    /\ UNCHANGED <<flushVars, taskVars>>

CopyBufferCpuToGpu ==
    /\ CanExecute
    /\ \E copyOp \in BufferCpuToGpuOps :
          Invoke(MainContext, Closure("CopyBufferCpuToGpu", copyOp), NoEnv)
    /\ UNCHANGED <<flushVars, taskVars>>

ResolveImage ==
    /\ CanExecute
    /\ \E resolveOp \in ResolveImageOps, env \in StatusEnvs :
          Invoke(MainContext, Closure("ResolveImage", resolveOp), env)
    /\ UNCHANGED <<flushVars, taskVars>>

SetViewport ==
    /\ CanExecute
    /\ \E vp \in Rects : Invoke(MainContext, Closure("SetViewport", vp), NoEnv)
    /\ UNCHANGED <<flushVars, taskVars>>

SetScissor ==
    /\ CanExecute
    /\ \E sc \in Rects : Invoke(MainContext, Closure("SetScissor", sc), NoEnv)
    /\ UNCHANGED <<flushVars, taskVars>>

BindPipeline ==
    /\ CanExecute
    /\ \E p \in PipelineHandles :
          Invoke(MainContext, Closure("BindPipeline", p), NoEnv)
    /\ UNCHANGED <<flushVars, taskVars>>

BindResources ==
    /\ CanExecute
    /\ \E r \in ResourceBindingsHandles :
          Invoke(MainContext, Closure("BindResources", r), NoEnv)
    /\ UNCHANGED <<flushVars, taskVars>>

BindVertexBuffers ==
    /\ CanExecute
    /\ \E b \in VertexBufferBindings, env \in UndefinedEnvs :
          Invoke(MainContext, Closure("BindVertexBuffers", b), env)
    /\ UNCHANGED <<flushVars, taskVars>>

DrawIndexed ==
    /\ CanExecute
    /\ \E d \in IndexedDraws, env \in UndefinedEnvs :
          Invoke(MainContext, Closure("DrawIndexed", d), env)
    /\ UNCHANGED <<flushVars, taskVars>>

BindFramebufferOp ==
    /\ CanExecute
    /\ \E desc \in GraphicsEncoderDescs :
          Invoke(MainContext, Closure("BindFramebufferOp", desc), NoEnv)
    /\ UNCHANGED <<flushVars, taskVars>>

Next ==
    \/ PushDebugGroup
    \/ PopDebugGroup
    \/ CopyTextureGpuToCpu
    \/ CopyBufferCpuToGpu
    \/ ResolveImage
    \/ SetViewport
    \/ SetScissor
    \/ BindPipeline
    \/ BindResources
    \/ BindVertexBuffers
    \/ DrawIndexed
    \/ BindFramebufferOp

Spec == Init /\ [][Next]_vars

(***************************************************************************)
(* Recording and flushing.  A command list is recorded per context by      *)
(* calling the factories; a flush invokes the recorded closures in order   *)
(* on its context and then clears the list.  Two flushes on two contexts   *)
(* (two threads) interleave op by op.                                      *)
(***************************************************************************)
FlushOps ==
    { Closure("PushDebugGroup", "labelA"),
      Closure("PopDebugGroup", "none"),
      Closure("BindPipeline", "pipe1"),
      Closure("ResolveImage",
              [source |-> "texNull", destination |-> "texDepth",
               usage |-> {"ColorTarget"}, sourceRegion |-> <<0, 0, 4, 4>>,
               destinationRegion |-> <<0, 0, 4, 4>>]) }
    \cup
    { Closure("DrawIndexed",
              [indexBuffer |-> b, indexCount |-> 6, indexBufferByteOffset |-> 0,
               vertexOffset |-> 0, instanceCount |-> 1, firstInstance |-> 0]) :
        b \in {"idx32", "bufNull"} }
    \cup
    { Closure("BindFramebufferOp",
              EncoderDesc(<<AttachmentDesc("HgiAttachmentLoadOpClear", TRUE)>>,
                          "texNull", "HgiAttachmentLoadOpClear")) }

FlushInit ==
    InitWith([c \in Contexts |-> ContextState(0, 0, c = MainContext)])

\* A caller whose current context is c calls a factory and appends the
\* closure it returns to the command list of c.
Record(c) ==
    /\ ~crashed
    /\ fpos[c] = 0
    /\ nRecorded < MaxRecorded
    /\ \E op \in FlushOps :
          LET m == Factory(Machine(gl[c]), op.kind, op.vals)
          IN  /\ cmds' = [cmds EXCEPT ![c] = Append(@, m.ret)]
              /\ passed' = [passed EXCEPT ![c] =
                              Append(@, IF op.kind = "PushDebugGroup"
                                        THEN heap[op.vals] ELSE "")]
              /\ gl' = [gl EXCEPT ![c] = m.gl]
              /\ rec' = [rec EXCEPT ![c] =
                           [calls |-> @.calls \o m.calls,
                            resolved |-> @.resolved \cup m.resolved]]
    /\ nRecorded' = nRecorded + 1
    /\ UNCHANGED <<last, crashed, nInvoked, fpos, done, heap, task, hd>>

FlushBegin(c) ==
    /\ ~crashed
    /\ fpos[c] = 0
    /\ cmds[c] # <<>>
    /\ fpos' = [fpos EXCEPT ![c] = 1]
    /\ done' = [done EXCEPT ![c] = <<>>]
    /\ UNCHANGED <<gl, last, rec, crashed, nInvoked, cmds, nRecorded, heap, passed, task, hd>>

\* The flush of c invokes the closure it is at.
FlushStep(c) ==
    /\ fpos[c] \in 1 .. Len(cmds[c])
    /\ \E env \in UndefinedEnvs : Invoke(c, cmds[c][fpos[c]], env)
    /\ fpos' = [fpos EXCEPT ![c] = @ + 1]
    /\ done' = [done EXCEPT ![c] =
                  Append(@, [op |-> cmds[c][fpos[c]], calls |-> last'[c].calls])]
    /\ UNCHANGED <<rec, cmds, nRecorded, heap, passed, task, hd>>

\* Every closure was invoked: the list is cleared.
FlushEnd(c) ==
    /\ ~crashed
    /\ fpos[c] = Len(cmds[c]) + 1
    /\ fpos' = [fpos EXCEPT ![c] = 0]
    /\ cmds' = [cmds EXCEPT ![c] = <<>>]
    /\ passed' = [passed EXCEPT ![c] = <<>>]
    /\ UNCHANGED <<gl, last, rec, crashed, nInvoked, done, nRecorded, heap, task, hd>>

FlushNext ==
    \E c \in Contexts :
        \/ Record(c)
        \/ FlushBegin(c)
        \/ FlushStep(c)
        \/ FlushEnd(c)

FlushSpec == FlushInit /\ [][FlushNext]_vars

(***************************************************************************)
(* The color-correction pass, run on a context in any state the            *)
(* application may have left it in.                                        *)
(***************************************************************************)
ColorCorrectionTasks ==
    { [programId |-> 31, texture |-> 41, texture3dLUT |-> 42,
       vertexBuffer |-> 25, framebufferSize |-> <<6, 6>>,
       locations |-> [colorIn |-> 0, lut3dIn |-> 1, position |-> 0, uvIn |-> 1],
       useOCIO |-> ocio] : ocio \in BOOLEAN }

StencilMasks == {0, 1, AllStencilBits}

TaskInit ==
    \E depthMask \in BOOLEAN, depthFunc \in {"GL_LESS", "GL_ALWAYS"} :
      \E viewport \in {DefaultRect} \cup Rects, blend \in BOOLEAN :
        \E alphaToCoverage \in BOOLEAN, stencilMask \in StencilMasks :
          InitWith([c \in Contexts |->
                      IF c = MainContext
                      THEN [ContextState(0, 0, FALSE)
                              EXCEPT !.depthMask = depthMask,
                                     !.depthFunc = depthFunc,
                                     !.viewport = viewport,
                                     !.blend = blend,
                                     !.alphaToCoverage = alphaToCoverage,
                                     !.stencilMask = stencilMask]
                      ELSE ContextState(0, 0, FALSE)])

ApplyColorCorrection ==
    /\ CanExecute
    /\ \E members \in ColorCorrectionTasks :
          Ran(MainContext, Closure("_ApplyColorCorrection", members),
              ApplyColorCorrectionFn(Machine(gl[MainContext]), members, NoEnv))
    /\ UNCHANGED <<flushVars, taskVars>>

TaskNext == ApplyColorCorrection

TaskSpec == TaskInit /\ [][TaskNext]_vars

(***************************************************************************)
(* One color-correction task driven by the render index: Sync, Prepare and *)
(* Execute in any order, on a context the application has used and whose   *)
(* viewport it may change between the calls.                               *)
(***************************************************************************)
TaskParams ==
    { DefaultParams,
      [DefaultParams EXCEPT !.framebufferSize = <<6, 6>>],
      [DefaultParams EXCEPT !.colorCorrectionMode = "openColorIO",
                            !.displayOCIO = "display"],
      [DefaultParams EXCEPT !.aovName = "color", !.aovBufferPath = "/aov"],
      [DefaultParams EXCEPT !.aovName = "depth", !.aovBufferPath = "/aov"] }

DirtyBitSets == {Clean, {"DirtyRenderTags"}, AllDirty}

BuildOutcomes == {"ok", "compile", "link"}

AppViewports == {DefaultRect} \cup Rects

ExecuteInit ==
    \E r \in {0, AppFramebuffer}, d \in {0, AppFramebuffer} :
      \E unit \in TextureUnits, bound \in {0, GetTextureId("texColor")} :
        InitWith([c \in Contexts |->
                    IF c = MainContext
                    THEN [ContextState(r, d, FALSE)
                            EXCEPT !.activeTexture = unit,
                                   !.tex2D["GL_TEXTURE0"] = bound]
                    ELSE ContextState(0, 0, FALSE)])

CanCallTask == ~crashed /\ nInvoked < MaxTaskCalls

\* The render index syncs the task: dirtyBits are the task's dirty bits,
\* retrieved and params what the scene delegate answers _GetTaskParams.
Sync ==
    /\ CanCallTask
    /\ \E dirtyBits \in DirtyBitSets, retrieved \in BOOLEAN, params \in TaskParams :
          LET delivered == "DirtyParams" \in dirtyBits /\ retrieved
          IN  /\ ~delivered => params = hd.params
              /\ task' = SyncFn(task, dirtyBits, retrieved, params)
              /\ hd' = [method |-> "Sync", dirtyBits |-> Clean,
                        params |-> IF delivered THEN params ELSE hd.params,
                        fresh |-> hd.fresh /\ ~delivered, wasFresh |-> hd.fresh]
    /\ nInvoked' = nInvoked + 1
    /\ UNCHANGED <<gl, last, crashed, flushVars>>

Prepare ==
    /\ CanCallTask
    /\ task' = PrepareFn(task)
    /\ hd' = [hd EXCEPT !.method = "Prepare", !.wasFresh = hd.fresh]
    /\ nInvoked' = nInvoked + 1
    /\ UNCHANGED <<gl, last, crashed, flushVars>>

Execute ==
    /\ CanCallTask
    /\ \E build \in BuildOutcomes :
          \E m \in {ExecuteFn(Machine(gl[MainContext]), task, [build |-> build])} :
              /\ Ran(MainContext, Closure("Execute", task), m)
              /\ task' = m.ret
              /\ hd' = [hd EXCEPT !.method = "Execute",
                                  !.fresh = @ \/ ( /\ task.shaderProgram = NoProgram
                                                   /\ m.ret.shaderProgram # NoProgram ),
                                  !.wasFresh = hd.fresh]
    /\ UNCHANGED flushVars

\* The application sets another viewport.
AppViewport ==
    /\ CanCallTask
    /\ \E rect \in AppViewports \ {gl[MainContext].viewport} :
          gl' = [gl EXCEPT ![MainContext].viewport = rect]
    /\ hd' = [hd EXCEPT !.method = "App", !.wasFresh = hd.fresh]
    /\ nInvoked' = nInvoked + 1
    /\ UNCHANGED <<last, crashed, task, flushVars>>

ExecuteNext ==
    \/ Sync
    \/ Prepare
    \/ Execute
    \/ AppViewport

ExecuteSpec == ExecuteInit /\ [][ExecuteNext]_vars

(***************************************************************************)
(* Callers that reuse the storage of a label.  Between the recording of an *)
(* op and the flush the caller may write other characters into the storage *)
(* it passed as a label, or release it.                                    *)
(***************************************************************************)
OverwriteLabel ==
    /\ ~crashed
    /\ \E p \in Labels :
          /\ heap[p] = LabelText
          /\ heap' = [heap EXCEPT ![p] = OtherText]
    /\ UNCHANGED <<gl, last, rec, crashed, nInvoked, cmds, fpos, done, nRecorded, passed, task, hd>>

ReleaseLabel ==
    /\ ~crashed
    /\ \E p \in Labels :
          /\ heap[p] # Released
          /\ heap' = [heap EXCEPT ![p] = Released]
    /\ UNCHANGED <<gl, last, rec, crashed, nInvoked, cmds, fpos, done, nRecorded, passed, task, hd>>

LabelNext ==
    \/ FlushNext
    \/ OverwriteLabel
    \/ ReleaseLabel

LabelSpec == FlushInit /\ [][LabelNext]_vars

(***************************************************************************)
(* Properties.                                                             *)
(***************************************************************************)
IsLast(c, kind) == last[c].op.kind = kind

Elems(seq) == {seq[i] : i \in 1 .. Len(seq)}

CallsOf(seq, fn) == SelectSeq(seq, LAMBDA call : call[1] = fn)

\* C1: a ResolveImage op with two valid textures leaves the read and the
\* draw framebuffer binding as it found them, for the depth and for the
\* color attachment, whether or not a completeness verification failed.
C1_ResolveImageRestoresBindings ==
    \A c \in Contexts :
        ( /\ IsLast(c, "ResolveImage")
          /\ Get(last[c].op.vals.source) # NullPtr
          /\ Get(last[c].op.vals.destination) # NullPtr )
        => /\ gl[c].readFB = last[c].pre.readFB
           /\ gl[c].drawFB = last[c].pre.drawFB

\* A depth resolve whose verification failed ran with different read and
\* draw bindings, and blitted.
C1_Witness ==
    \E c \in Contexts :
        /\ IsLast(c, "ResolveImage")
        /\ "DepthTarget" \in last[c].op.vals.usage
        /\ last[c].pre.readFB = AppFramebuffer
        /\ last[c].pre.drawFB = 0
        /\ "TF_VERIFY" \in Elems(last[c].diag)
        /\ CallsOf(last[c].calls, "glBlitFramebuffer") # <<>>

\* C2: when a ResolveImage op has returned, on any exit path, no
\* framebuffer it created is alive: the live framebuffers are those that
\* were alive when it was invoked.
C2_ResolveImageDestroysFramebuffers ==
    \A c \in Contexts :
        IsLast(c, "ResolveImage") => gl[c].fbs = last[c].pre.fbs

\* C3: a flush invokes every recorded op once and in the recorded order:
\* at each point of a flush the closures invoked so far are the first
\* recorded ones, in order, and the flush goes on to the next one.
C3_FlushInvokesEveryOpInOrder ==
    \A c \in Contexts :
        fpos[c] > 0 =>
            /\ Len(done[c]) = fpos[c] - 1
            /\ \A i \in 1 .. Len(done[c]) : done[c][i].op = cmds[c][i]
            /\ ~crashed

\* C4: CopyTextureGpuToCpu, CopyBufferCpuToGpu, ResolveImage and
\* DrawIndexed leave the global binding state as they found it.
C4_TransparentOpsKeepBindings ==
    \A c \in Contexts :
        last[c].op.kind \in {"CopyTextureGpuToCpu", "CopyBufferCpuToGpu",
                             "ResolveImage", "DrawIndexed"}
        => Bindings(gl[c]) = Bindings(last[c].pre)

\* C5: CopyBufferCpuToGpu issues no native call when byteSize is 0 or the
\* source pointer or the destination handle is null; otherwise one write of
\* byteSize bytes from source+sourceByteOffset to destinationByteOffset,
\* then one buffer-update barrier.
C5_CopyBufferCalls ==
    \A c \in Contexts :
        IsLast(c, "CopyBufferCpuToGpu") =>
            LET copyOp == last[c].op.vals
            IN  IF \/ copyOp.byteSize = 0
                   \/ copyOp.cpuSourceBuffer = NullPtr
                   \/ Get(copyOp.gpuDestinationBuffer) = NullPtr
                THEN last[c].calls = <<>>
                ELSE last[c].calls =
                        << <<"glNamedBufferSubData",
                             GetBufferId(copyOp.gpuDestinationBuffer),
                             copyOp.destinationByteOffset, copyOp.byteSize,
                             <<copyOp.cpuSourceBuffer, copyOp.sourceByteOffset>> >>,
                           <<"glMemoryBarrier", "GL_BUFFER_UPDATE_BARRIER_BIT">> >>

\* A copy that wrote.
C5_Witness ==
    \E c \in Contexts :
        /\ IsLast(c, "CopyBufferCpuToGpu")
        /\ last[c].op.vals.byteSize > 0
        /\ Len(last[c].calls) = 2

\* C6: CopyTextureGpuToCpu issues no native call when the source texture
\* handle is null or has texture id 0, or the destination size is 0.
C6_CopyTextureRefuses ==
    \A c \in Contexts :
        IsLast(c, "CopyTextureGpuToCpu") =>
            LET copyOp == last[c].op.vals
            IN  ( \/ Get(copyOp.gpuSourceTexture) = NullPtr
                  \/ GetTextureId(copyOp.gpuSourceTexture) = 0
                  \/ copyOp.destinationBufferByteSize = 0 )
                => last[c].calls = <<>>

\* A texture object with id 0 was refused, with the verification raised.
C6_Witness ==
    \E c \in Contexts :
        /\ IsLast(c, "CopyTextureGpuToCpu")
        /\ last[c].op.vals.gpuSourceTexture = "texZeroId"
        /\ last[c].op.vals.destinationBufferByteSize > 0
        /\ last[c].calls = <<>>
        /\ last[c].diag = <<"TF_VERIFY">>

\* C7: CopyTextureGpuToCpu issues no native call whenever the mathematical
\* sum startLayer + numLayers exceeds the layer count of the texture.
C7_CopyTextureRefusesLayerRange ==
    \A c \in Contexts :
        IsLast(c, "CopyTextureGpuToCpu") =>
            LET copyOp == last[c].op.vals
            IN  ( /\ Get(copyOp.gpuSourceTexture) # NullPtr
                  /\ SumExceeds(copyOp.startLayer, copyOp.numLayers,
                                TextureDesc(copyOp.gpuSourceTexture).layerCount) )
                => last[c].calls = <<>>

\* C8: no op accesses a member of an object through a handle that
\* resolved to null.
C8_NoNullDereference ==
    \A c \in Contexts : ~last[c].nullDeref

\* C9: calling a factory issues no native call, resolves no handle and
\* leaves the GL state alone; native calls, handle resolutions and GL state
\* changes happen only in a step that invokes a closure.
C9_RecordingTouchesNothing ==
    [][ /\ nRecorded' # nRecorded =>
            /\ gl' = gl
            /\ \A c \in Contexts : rec'[c] = NoRec
        /\ (gl' # gl \/ last' # last) => nInvoked' = nInvoked + 1 ]_vars

\* Closures with handles were recorded and none has been invoked.
C9_Witness ==
    \E c \in Contexts :
        /\ Closure("BindPipeline", "pipe1") \in Elems(cmds[c])
        /\ Len(cmds[c]) >= 2
        /\ nInvoked = 0

\* C10: with N buffers and N offsets BindVertexBuffers issues N bind
\* calls, the i-th for slot firstBinding+i with buffer i, offsets[i] and the
\* stride of buffer i, and no slot outside [firstBinding, firstBinding+N)
\* changes.
C10_BindVertexBuffersSlots ==
    \A c \in Contexts :
        ( /\ IsLast(c, "BindVertexBuffers")
          /\ Len(last[c].op.vals.byteOffsets) = Len(last[c].op.vals.vertexBuffers)
          /\ \A b \in Elems(last[c].op.vals.vertexBuffers) : Get(b) # NullPtr )
        => LET cap == last[c].op.vals
               N == Len(cap.vertexBuffers)
               slot(i) == cap.firstBinding + i - 1
               bound(i) == <<GetBufferId(cap.vertexBuffers[i]), cap.byteOffsets[i],
                             BufferDesc(cap.vertexBuffers[i]).vertexStride>>
           IN  /\ CallsOf(last[c].calls, "glBindVertexBuffer") =
                     [i \in 1 .. N |-> <<"glBindVertexBuffer", slot(i)>> \o bound(i)]
               /\ \A s \in Slots :
                     gl[c].vtxSlots[s] =
                        IF \E i \in 1 .. N : slot(i) = s
                        THEN bound(CHOOSE i \in 1 .. N : slot(i) = s)
                        ELSE last[c].pre.vtxSlots[s]

\* Two buffers were bound from slot 1 on.
C10_Witness ==
    \E c \in Contexts :
        /\ IsLast(c, "BindVertexBuffers")
        /\ last[c].op.vals.firstBinding = 1
        /\ last[c].op.vals.vertexBuffers = <<"vtxB", "vtxA">>
        /\ last[c].op.vals.byteOffsets = <<4, 8>>
        /\ gl[c].vtxSlots[2] = <<21, 8, 12>>

\* The pixels of the region <<x, y, width, height>>: [x, x+width) by
\* [y, y+height).
RegionPixels(region) ==
    { <<px, py>> \in (0 .. 8) \X (0 .. 8) :
        /\ region[1] <= px /\ px < region[1] + region[3]
        /\ region[2] <= py /\ py < region[2] + region[4] }

\* C11: the blit of a ResolveImage op reads the pixels [x, x+width) by
\* [y, y+height) of the source region and writes those of the destination
\* region, for every pair of regions.
C11_ResolveImageBlitsRegions ==
    \A c \in Contexts :
        IsLast(c, "ResolveImage") =>
            \A i \in 1 .. Len(last[c].calls) :
                last[c].calls[i][1] = "glBlitFramebuffer" =>
                    /\ BlitPixels(last[c].calls[i][2]) =
                          RegionPixels(last[c].op.vals.sourceRegion)
                    /\ BlitPixels(last[c].calls[i][3]) =
                          RegionPixels(last[c].op.vals.destinationRegion)

\* C12: after a BindFramebufferOp op blending is enabled exactly when some
\* color attachment of the description has blendEnabled set, whatever the
\* blend-enable state was before.
C12_BlendEnabledIffRequested ==
    \A c \in Contexts :
        IsLast(c, "BindFramebufferOp") =>
            LET descs == last[c].op.vals.colorAttachmentDescs
            IN  gl[c].blend = (\E i \in 1 .. Len(descs) : descs[i].blendEnabled)

\* Blending was on, and a description with a color attachment that asks
\* for none turned it off.
C12_Witness ==
    \E c \in Contexts :
        /\ IsLast(c, "BindFramebufferOp")
        /\ Len(last[c].op.vals.colorAttachmentDescs) = 1
        /\ ~last[c].op.vals.colorAttachmentDescs[1].blendEnabled
        /\ last[c].pre.blend
        /\ ~gl[c].blend

\* Position of the first call of fn in a call sequence (0: none).
FirstIndex(seq, fn) ==
    IF \E i \in 1 .. Len(seq) : seq[i][1] = fn
    THEN CHOOSE i \in 1 .. Len(seq) :
            /\ seq[i][1] = fn
            /\ \A j \in 1 .. i - 1 : seq[j][1] # fn
    ELSE 0

\* The clears a description asks for: color buffer i (0-based) with its
\* clear value for each attachment with the clear load op, in order, then
\* the depth buffer if there is a depth texture whose load op is clear.
RECURSIVE ExpectedColorClears(_, _)
ExpectedColorClears(descs, i) ==
    IF i > Len(descs) THEN <<>>
    ELSE (IF descs[i].loadOp = "HgiAttachmentLoadOpClear"
          THEN << <<"glClearBufferfv", "GL_COLOR", i - 1, descs[i].clearValue>> >>
          ELSE <<>>)
         \o ExpectedColorClears(descs, i + 1)

\* C13: a BindFramebufferOp op binds the acquired framebuffer before any
\* clear, and its clears are exactly those of the attachments with the
\* clear load op: color buffer i to the clear value of attachment i, and
\* the depth buffer when a depth texture exists and its load op is clear.
C13_BindThenClearOnLoad ==
    \A c \in Contexts :
        IsLast(c, "BindFramebufferOp") =>
            LET desc == last[c].op.vals
                clears == CallsOf(last[c].calls, "glClearBufferfv")
                depthClear ==
                    IF /\ Get(desc.depthTexture) # NullPtr
                       /\ desc.depthAttachmentDesc.loadOp = "HgiAttachmentLoadOpClear"
                    THEN << <<"glClearBufferfv", "GL_DEPTH", 0,
                              desc.depthAttachmentDesc.clearValue>> >>
                    ELSE <<>>
            IN  /\ clears = ExpectedColorClears(desc.colorAttachmentDescs, 1)
                              \o depthClear
                /\ FirstIndex(last[c].calls, "glBindFramebuffer") > 0
                /\ clears # <<>> =>
                      FirstIndex(last[c].calls, "glBindFramebuffer")
                        < FirstIndex(last[c].calls, "glClearBufferfv")
                /\ \E e \in gl[c].fbCache :
                      /\ e[1] = desc
                      /\ gl[c].drawFB = e[2]
                      /\ gl[c].readFB = e[2]

\* Three color attachments of which the first and the third were cleared,
\* each to its own value, and the depth buffer after them.
C13_Witness ==
    \E c \in Contexts :
        /\ IsLast(c, "BindFramebufferOp")
        /\ Len(last[c].op.vals.colorAttachmentDescs) = 3
        /\ Len(CallsOf(last[c].calls, "glClearBufferfv")) = 3
        /\ <<"glClearBufferfv", "GL_COLOR", 2, <<0, 1, 0, 1>> >>
              \in Elems(last[c].calls)

C15_EveryOpPollsErrors ==
    \A c \in Contexts :
        (last[c].calls # <<>> /\ ~last[c].crashed)
        => last[c].calls[Len(last[c].calls)] = <<"glGetError">>

\* C16: a CopyTextureGpuToCpu invocation that reads texels back issues
\* exactly one memory barrier, with all bits, before the read-back; there
\* is no read-back without it.
C16_BarrierBeforeReadback ==
    \A c \in Contexts :
        LET calls == last[c].calls
            readback == FirstIndex(calls, "glGetTextureSubImage")
        IN  readback > 0 =>
              /\ IsLast(c, "CopyTextureGpuToCpu")
              /\ Len(CallsOf(calls, "glGetTextureSubImage")) = 1
              /\ CallsOf(calls, "glMemoryBarrier") =
                    << <<"glMemoryBarrier", "GL_ALL_BARRIER_BITS">> >>
              /\ FirstIndex(calls, "glMemoryBarrier") < readback

\* Texels of a valid texture were read back.
C16_Witness ==
    \E c \in Contexts :
        /\ IsLast(c, "CopyTextureGpuToCpu")
        /\ last[c].op.vals.gpuSourceTexture = "texColor"
        /\ FirstIndex(last[c].calls, "glGetTextureSubImage") = 2

\* C17: a DrawIndexed op with instanceCount = 0 and an index buffer raises
\* the verification and then does what it does for any other count: it
\* binds the index buffer and issues the draw, with zero instances.
C17_ZeroInstancesStillDraws ==
    \A c \in Contexts :
        ( /\ IsLast(c, "DrawIndexed")
          /\ last[c].op.vals.instanceCount = 0
          /\ Get(last[c].op.vals.indexBuffer) # NullPtr )
        => LET cap == last[c].op.vals
           IN  /\ last[c].diag # <<>>
               /\ last[c].diag[1] = "TF_VERIFY"
               /\ ~last[c].crashed
               /\ last[c].calls =
                     << <<"glBindBuffer", "GL_ELEMENT_ARRAY_BUFFER",
                          GetBufferId(cap.indexBuffer)>>,
                        <<"glDrawElementsInstancedBaseVertex", "GL_TRIANGLES",
                          cap.indexCount, "GL_UNSIGNED_INT",
                          cap.indexBufferByteOffset, 0, cap.vertexOffset>>,
                        <<"glGetError">> >>

\* A draw of zero instances from a 32-bit index buffer: one verification
\* failed and the draw was issued.
C17_Witness ==
    \E c \in Contexts :
        /\ IsLast(c, "DrawIndexed")
        /\ last[c].op.vals.instanceCount = 0
        /\ last[c].op.vals.indexBuffer = "idx32"
        /\ last[c].diag = <<"TF_VERIFY">>
        /\ Len(CallsOf(last[c].calls, "glDrawElementsInstancedBaseVertex")) = 1

\* C18: the label a PushDebugGroup op annotates with when the flush invokes
\* it is the text the caller passed when it recorded the op, whatever the
\* caller did with the label's storage in between.
C18_LabelIsTheRecordedText ==
    \A c \in Contexts :
        fpos[c] > 0 =>
            \A i \in 1 .. Len(done[c]) :
                (done[c][i].op.kind = "PushDebugGroup" /\ gl[c].khrDebug)
                => done[c][i].calls = << <<"glPushDebugGroup", passed[c][i]>> >>

C20_ColorCorrectionRestoresState ==
    \A c \in Contexts :
        IsLast(c, "_ApplyColorCorrection") =>
            /\ gl[c].depthMask = last[c].pre.depthMask
            /\ gl[c].depthFunc = last[c].pre.depthFunc
            /\ gl[c].viewport = last[c].pre.viewport
            /\ gl[c].blend = last[c].pre.blend
            /\ gl[c].alphaToCoverage = last[c].pre.alphaToCoverage

\* The pass ran with depth writes, blending and alpha to coverage on and
\* a viewport of its own: it switched each off, drew, and put them back.
C20_Witness ==
    \E c \in Contexts :
        /\ IsLast(c, "_ApplyColorCorrection")
        /\ last[c].pre.depthMask
        /\ last[c].pre.blend
        /\ last[c].pre.alphaToCoverage
        /\ last[c].pre.depthFunc = "GL_LESS"
        /\ last[c].pre.viewport = <<1, 2, 4, 4>>
        /\ <<"glDisable", "GL_BLEND">> \in Elems(CallsOf(last[c].calls, "glDisable"))
        /\ <<"glViewport", <<0, 0, 6, 6>> >>
              \in Elems(CallsOf(last[c].calls, "glViewport"))
        /\ CallsOf(last[c].calls, "glDrawArrays") # <<>>
        /\ gl[c].blend

\* C21: when the color-correction pass returns, the stencil write mask is
\* the mask that was in effect when it was entered, bit for bit.
C21_StencilMaskRestored ==
    \A c \in Contexts :
        IsLast(c, "_ApplyColorCorrection") =>
            gl[c].stencilMask = last[c].pre.stencilMask

\* The task's Execute was the last thing to happen on the main context.
Executed == hd.method = "Execute" /\ IsLast(MainContext, "Execute")

\* C22: after the task's Execute the active texture unit and the 2D and 3D
\* texture bound on each unit are those before it.
C22_ExecuteKeepsTextureBindings ==
    Executed =>
        /\ gl[MainContext].activeTexture = last[MainContext].pre.activeTexture
        /\ gl[MainContext].tex2D = last[MainContext].pre.tex2D
        /\ gl[MainContext].tex3D = last[MainContext].pre.tex3D

\* C23: after the task's Execute the read and the draw framebuffer bindings
\* are those before it, with an AOV texture and without.
C23_ExecuteKeepsFramebufferBindings ==
    Executed =>
        /\ gl[MainContext].readFB = last[MainContext].pre.readFB
        /\ gl[MainContext].drawFB = last[MainContext].pre.drawFB

\* An Execute with an AOV texture, entered with different framebuffers
\* bound for reading and drawing: the framebuffers were created and
\* attached to, the AOV was copied, and the pass drew into the AOV
\* framebuffer.
C23_Witness ==
    /\ Executed
    /\ task.aovTexture # NullPtr
    /\ last[MainContext].op.vals.copyFramebuffer = 0
    /\ last[MainContext].pre.readFB = AppFramebuffer
    /\ last[MainContext].pre.drawFB = 0
    /\ <<"glBindFramebuffer", "GL_DRAW_FRAMEBUFFER", task.copyFramebuffer>>
          \in Elems(last[MainContext].calls)
    /\ <<"glBindFramebuffer", "GL_READ_FRAMEBUFFER", task.aovFramebuffer>>
          \in Elems(last[MainContext].calls)
    /\ CallsOf(last[MainContext].calls, "glBlitFramebuffer") # <<>>
    /\ CallsOf(last[MainContext].calls, "glDrawArrays") # <<>>

\* C24: a CopyTextureGpuToCpu whose source texture is neither a color
\* target nor a depth target signals a coding error and issues no texel
\* read-back.
C24_UnknownUsageReadsNothing ==
    \A c \in Contexts :
        ( /\ IsLast(c, "CopyTextureGpuToCpu")
          /\ ValidTexture(Get(last[c].op.vals.gpuSourceTexture))
          /\ TextureDesc(Get(last[c].op.vals.gpuSourceTexture)).usage
                \cap {"ColorTarget", "DepthTarget"} = {} )
        => /\ "TF_CODING_ERROR" \in Elems(last[c].diag)
           /\ CallsOf(last[c].calls, "glGetTextureSubImage") = <<>>

\* C25: a BindVertexBuffers whose byteOffsets and vertexBuffers differ in
\* length signals a failed verification and reads no element of byteOffsets
\* past its end.
C25_NoOffsetReadPastEnd ==
    \A c \in Contexts :
        ( /\ IsLast(c, "BindVertexBuffers")
          /\ Len(last[c].op.vals.byteOffsets) # Len(last[c].op.vals.vertexBuffers) )
        => /\ "TF_VERIFY" \in Elems(last[c].diag)
           /\ ~last[c].oobRead

\* C26: a BindFramebufferOp whose description declares no attachment
\* signals the error, asks the device for no framebuffer and leaves the
\* framebuffer bindings and the blend-enable flag as they were.
C26_NoAttachmentsBindsNothing ==
    \A c \in Contexts :
        ( /\ IsLast(c, "BindFramebufferOp")
          /\ ~HasAttachments(last[c].op.vals) )
        => /\ "TF_VERIFY" \in Elems(last[c].diag)
           /\ CallsOf(last[c].calls, "HgiGLDevice::AcquireFramebuffer") = <<>>
           /\ gl[c].readFB = last[c].pre.readFB
           /\ gl[c].drawFB = last[c].pre.drawFB
           /\ gl[c].blend = last[c].pre.blend

\* C27: the box of texels a CopyTextureGpuToCpu asks for lies inside the
\* source texture: in each dimension, offset plus extent is at most the
\* dimension of the texture.
C27_ReadbackBoxInsideTexture ==
    \A c \in Contexts :
        IsLast(c, "CopyTextureGpuToCpu") =>
            \A i \in 1 .. Len(last[c].calls) :
                last[c].calls[i][1] = "glGetTextureSubImage" =>
                    LET offset == last[c].calls[i][3]
                        extent == last[c].calls[i][4]
                        dims == TextureDesc(Get(last[c].op.vals.gpuSourceTexture)).dimensions
                    IN  \A k \in 1 .. 3 : offset[k] + extent[k] <= dims[k]

\* C28: the native draw of a DrawIndexed depends on every recorded draw
\* parameter: from the same state, an op with the same index buffer and
\* other draw parameters issues another native draw.
C28_DrawUsesEveryParameter ==
    \A c \in Contexts :
        ( /\ IsLast(c, "DrawIndexed")
          /\ Get(last[c].op.vals.indexBuffer) # NullPtr )
        => \A other \in IndexedDraws :
              ( /\ other.indexBuffer = last[c].op.vals.indexBuffer
                /\ other # last[c].op.vals )
              => CallsOf(DrawIndexedFn(Machine(last[c].pre), other, NoEnv).calls,
                         "glDrawElementsInstancedBaseVertex")
                    # CallsOf(last[c].calls, "glDrawElementsInstancedBaseVertex")

\* C29: an Execute for which the params last delivered give no framebuffer
\* size (a component <= 0) uses the size of the viewport current at that
\* Execute for the copy texture, for the copy and for the viewport of the
\* full-screen pass.
C29_SizeIsTheCurrentViewport ==
    ( /\ Executed
      /\ CallsOf(last[MainContext].calls, "glDrawArrays") # <<>>
      /\ hd.params.framebufferSize[1] <= 0 \/ hd.params.framebufferSize[2] <= 0 )
    => LET width == last[MainContext].pre.viewport[3]
           height == last[MainContext].pre.viewport[4]
       IN  /\ task.textureSize = <<width, height>>
           /\ <<"glViewport", <<0, 0, width, height>> >>
                 \in Elems(last[MainContext].calls)
           /\ \A i \in 1 .. Len(last[MainContext].calls) :
                 last[MainContext].calls[i][1] = "glBlitFramebuffer" =>
                    last[MainContext].calls[i][2] = <<0, 0, width, height>>

\* C30: Sync leaves the dirty bits Clean.  An Execute that reaches shader
\* creation with a fresh program (built, and no params delivered by a Sync
\* since) builds nothing and keeps the program.  One that reaches it
\* without a fresh program compiles the fragment shader of the task's
\* current settings: when the build succeeds the task holds a new program
\* of that text, when it fails the task holds no program, nothing is drawn
\* and the program is still not fresh, so the following Execute builds
\* again.
C30_ProgramFollowsSync ==
    LET before == last[MainContext].op.vals
        calls == last[MainContext].calls
        reached == Executed /\ before.aovName \in {"", "color"}
    IN  /\ hd.method = "Sync" => hd.dirtyBits = Clean
        /\ (hd.method = "Sync" /\ ~hd.fresh) => task.shaderProgram = NoProgram
        /\ (reached /\ hd.wasFresh) =>
              /\ CallsOf(calls, "HdStGLSLProgram::CompileShader") = <<>>
              /\ task.shaderProgram = before.shaderProgram
              /\ task.shaderProgram # NoProgram
        /\ (reached /\ ~hd.wasFresh) =>
              /\ <<"HdStGLSLProgram::CompileShader", "GL_FRAGMENT_SHADER",
                   FragCode(task)>> \in Elems(calls)
              /\ task.shaderProgram # NoProgram =>
                    /\ task.shaderProgram.fragCode = FragCode(task)
                    /\ task.shaderProgram.id \notin last[MainContext].pre.programs
                    /\ hd.fresh
              /\ task.shaderProgram = NoProgram =>
                    /\ CallsOf(calls, "glDrawArrays") = <<>>
                    /\ "TF_CODING_ERROR" \in Elems(last[MainContext].diag)
                    /\ ~hd.fresh

\* After a first program was built, a Sync delivered OpenColorIO settings
\* and the next Execute built a second program, from the new settings.
C30_Witness ==
    /\ Executed
    /\ ~hd.wasFresh
    /\ hd.fresh
    /\ hd.params.colorCorrectionMode = "openColorIO"
    /\ task.shaderProgram.id = 2
    /\ task.shaderProgram.fragCode = FragCode(task)
    /\ "#define GLSLFX_USE_OCIO" \in Elems(task.shaderProgram.fragCode)
    /\ CallsOf(last[MainContext].calls, "glDrawArrays") # <<>>

\* The index of the first call of seq that equals call, or 0.
IndexOf(seq, call) ==
    IF \E i \in 1 .. Len(seq) : seq[i] = call
    THEN CHOOSE i \in 1 .. Len(seq) :
            seq[i] = call /\ \A j \in 1 .. i - 1 : seq[j] # call
    ELSE 0

\* C31: whatever Sync, Prepare and Execute did, the live GPU objects the
\* calls created are the ones the task has the ids of, at most one copy
\* texture, one 3D LUT, one vertex buffer, one copy framebuffer and one AOV
\* framebuffer; the live copy texture has storage of the recorded texture
\* size; and an Execute creates an object only when the stored id was 0 or,
\* for the copy texture, after it deleted the old one.
C31_OneLiveObjectOfEachKind ==
    LET g == gl[MainContext]
        before == last[MainContext].op.vals
        calls == last[MainContext].calls
        Stored(ids) == ids \ {0}
    IN  /\ g.textures \ AppTextures = Stored({task.texture, task.texture3dLUT})
        /\ g.buffers \ AppBuffers = Stored({task.vertexBuffer})
        /\ g.fbs \ {AppFramebuffer}
              = Stored({task.copyFramebuffer, task.aovFramebuffer})
        /\ task.texture # 0 =>
              /\ task.texture # task.texture3dLUT
              /\ {i \in g.images : i[1] = task.texture}
                    = {<<task.texture, task.textureSize[1], task.textureSize[2]>>}
        /\ task.copyFramebuffer # 0 => task.copyFramebuffer # task.aovFramebuffer
        /\ Executed =>
              /\ Len(CallsOf(calls, "glGenBuffers"))
                    <= (IF before.vertexBuffer = 0 THEN 1 ELSE 0)
              /\ Len(CallsOf(calls, "glGenFramebuffers"))
                    <= (IF before.copyFramebuffer = 0 THEN 1 ELSE 0)
                       + (IF before.aovFramebuffer = 0 THEN 1 ELSE 0)
              /\ <<"glGenTextures", task.texture>> \in Elems(calls) =>
                    \/ before.texture = 0
                    \/ /\ IndexOf(calls, <<"glDeleteTextures", before.texture>>) > 0
                       /\ IndexOf(calls, <<"glDeleteTextures", before.texture>>)
                             < IndexOf(calls, <<"glGenTextures", task.texture>>)

\* After an Execute with an 8x8 copy texture, a Sync delivered a framebuffer
\* size of 6x6 and the next Execute deleted the texture and created one of
\* that size, keeping the vertex buffer and the framebuffers it had.
C31_Witness ==
    /\ Executed
    /\ last[MainContext].op.vals.texture # 0
    /\ last[MainContext].op.vals.textureSize = <<8, 8>>
    /\ task.textureSize = <<6, 6>>
    /\ <<"glDeleteTextures", last[MainContext].op.vals.texture>>
          \in Elems(last[MainContext].calls)
    /\ <<task.texture, 6, 6>> \in gl[MainContext].images
    /\ task.vertexBuffer = last[MainContext].op.vals.vertexBuffer
    /\ task.copyFramebuffer = last[MainContext].op.vals.copyFramebuffer
    /\ CallsOf(last[MainContext].calls, "glGenFramebuffers") = <<>>

=============================================================================
